---------------------------- MODULE Spec2Model ----------------------------
(***************************************************************************)
(* A model of the nutrition engine of nutrient_be: the serving calculator  *)
(* (package calculator), the food validator and FoodService.CreateFood,    *)
(* the meal validator, the meal handler and MealService with its template  *)
(* store, AddFoodToTemplate and UpdateTemplate calls side by side, the     *)
(* date range of the meal plan validator, and the second meal validator    *)
(* of internal/pkg/validator next to the one the handler uses.             *)
(*                                                                         *)
(* Numbers.  Every float64 quantity of the source (nutrient values,        *)
(* amounts, gram equivalents, calories) is an exact rational <<n, d>> in   *)
(* lowest terms with d > 0, and + - * / are exact.  This is the number     *)
(* model of the written design ("non-negative real numbers"); the last-bit *)
(* rounding of float64 arithmetic is not represented.                      *)
(*                                                                         *)
(* Text.  A Go string is a sequence of characters; strings.TrimSpace is    *)
(* computed on it, and len counts the bytes of its UTF-8 encoding.         *)
(*                                                                         *)
(* Time.  A time.Time is a whole number of hours since the start of a UTC  *)
(* day.                                                                    *)
(*                                                                         *)
(* Identifiers.  The hex string of a stored document's ObjectID is        *)
(* <<"oid", n>>, n being the document's position in its store; the other  *)
(* strings an id can be are <<"bad", 0>>, <<"blank", 0>>, <<"empty", 0>>. *)
(***************************************************************************)
EXTENDS Integers, Sequences, FiniteSets, TLC

VARIABLES
    foods,      \* the "foods" collection: Seq of domain.FoodItem
    templates,  \* the "meal_templates" collection: Seq of domain.MealTemplate
    resp,       \* outcome of the request handled last
    calc,       \* harness of the pure functions: what was applied, to what, and the result
    running     \* the service calls in progress, each between its read and its write

vars == <<foods, templates, resp, calc, running>>

---------------------------------------------------------------------------
(* Exact rational arithmetic standing for float64.                         *)

Abs(i) == IF i < 0 THEN -i ELSE i

RECURSIVE GCD(_, _)
GCD(a, b) == IF b = 0 THEN a ELSE GCD(b, a % b)

\* <<n, d>> in lowest terms, d > 0.  A zero divisor (x/0 in Go: Inf or NaN)
\* is kept as <<sign, 0>>.
Norm(n, d) ==
    IF d = 0 THEN <<IF n > 0 THEN 1 ELSE IF n < 0 THEN -1 ELSE 0, 0>>
    ELSE LET s == IF d < 0 THEN -1 ELSE 1
             g == GCD(Abs(n), Abs(d))
         IN  <<(s * n) \div g, (s * d) \div g>>

R(i) == <<i, 1>>
Zero == R(0)

RAdd(x, y) == Norm(x[1] * y[2] + y[1] * x[2], x[2] * y[2])
RSub(x, y) == Norm(x[1] * y[2] - y[1] * x[2], x[2] * y[2])
RMul(x, y) == Norm(x[1] * y[1], x[2] * y[2])
RDiv(x, y) == Norm(x[1] * y[2], x[2] * y[1])
RLt(x, y) == x[1] * y[2] < y[1] * x[2]
RLe(x, y) == x[1] * y[2] <= y[1] * x[2]
RGt(x, y) == RLt(y, x)

---------------------------------------------------------------------------
(* domain.MacroNutrients, domain.MicroNutrients                            *)

ZeroMacros ==
    [Protein |-> Zero, Carbohydrates |-> Zero, Fat |-> Zero, Fiber |-> Zero,
     Sugar |-> Zero]

ZeroMicros ==
    [VitaminA |-> Zero, VitaminC |-> Zero, Calcium |-> Zero, Iron |-> Zero,
     Sodium |-> Zero, Potassium |-> Zero]

---------------------------------------------------------------------------
(* package calculator                                                      *)

RECURSIVE FindServing(_, _, _)

\* A variant that takes the last entry with the unit.
FindLastServing(sizes, servingUnit, i) ==
    IF \A j \in i..Len(sizes) : sizes[j].Unit # servingUnit THEN 0
    ELSE CHOOSE j \in i..Len(sizes) :
            /\ sizes[j].Unit = servingUnit
            /\ \A l \in (j + 1)..Len(sizes) : sizes[l].Unit # servingUnit

\* The loop with break of CalculateNutrientsForServing from entry i on: the
\* index of the first serving size whose unit is servingUnit, 0 when there
\* is none.
FindServing(sizes, servingUnit, i) ==
    IF i > Len(sizes) THEN 0
    ELSE IF sizes[i].Unit = servingUnit THEN i
    ELSE FindServing(sizes, servingUnit, i + 1)

ScaleMacros(m, multiplier) ==
    [Protein       |-> RMul(m.Protein, multiplier),
     Carbohydrates |-> RMul(m.Carbohydrates, multiplier),
     Fat           |-> RMul(m.Fat, multiplier),
     Fiber         |-> RMul(m.Fiber, multiplier),
     Sugar         |-> RMul(m.Sugar, multiplier)]

ScaleMicros(m, multiplier) ==
    [VitaminA  |-> RMul(m.VitaminA, multiplier),
     VitaminC  |-> RMul(m.VitaminC, multiplier),
     Calcium   |-> RMul(m.Calcium, multiplier),
     Iron      |-> RMul(m.Iron, multiplier),
     Sodium    |-> RMul(m.Sodium, multiplier),
     Potassium |-> RMul(m.Potassium, multiplier)]

\* A variant that takes the request's amount for a count of servings.
TotalGramsPerServing(servingSize, amount) ==
    RMul(amount, servingSize.GramEquivalent)

\* totalGrams := (amount / servingSize.Amount) * servingSize.GramEquivalent
TotalGrams(servingSize, amount) ==
    RMul(RDiv(amount, servingSize.Amount), servingSize.GramEquivalent)

\* A variant that divides as integers do.
MultiplierTruncated(totalGrams) ==
    R(totalGrams[1] \div (totalGrams[2] * 100))

\* multiplier := totalGrams / 100.0
Multiplier(totalGrams) == RDiv(totalGrams, R(100))

\* The values of the food scaled by multiplier, with a nil error.
ScaleFood(food, multiplier) ==
    [calories |-> RMul(food.Calories, multiplier),
     macros   |-> ScaleMacros(food.Macros, multiplier),
     micros   |-> ScaleMicros(food.Micros, multiplier),
     err      |-> ""]

\* A variant that returns the food's own values along with the error.
CalculateOrBaseline(food, servingUnit, amount) ==
    IF FindServing(food.ServingSizes, servingUnit, 1) = 0
    THEN [calories |-> food.Calories, macros |-> food.Macros,
          micros |-> food.Micros, err |-> "serving unit not found"]
    ELSE ScaleFood(food,
            Multiplier(TotalGrams(
                food.ServingSizes[FindServing(food.ServingSizes, servingUnit, 1)],
                amount)))

\* The four results of CalculateNutrientsForServing; err is "" for nil.
CalculateNutrientsForServing(food, servingUnit, amount) ==
    IF FindServing(food.ServingSizes, servingUnit, 1) = 0
    THEN [calories |-> Zero, macros |-> ZeroMacros, micros |-> ZeroMicros,
          err |-> "serving unit not found"]
    ELSE ScaleFood(food,
            Multiplier(TotalGrams(
                food.ServingSizes[FindServing(food.ServingSizes, servingUnit, 1)],
                amount)))

\* A variant that assigns the fat instead of accumulating it.
AddMacrosLastFat(result, macros) ==
    [Protein       |-> RAdd(result.Protein, macros.Protein),
     Carbohydrates |-> RAdd(result.Carbohydrates, macros.Carbohydrates),
     Fat           |-> macros.Fat,
     Fiber         |-> RAdd(result.Fiber, macros.Fiber),
     Sugar         |-> RAdd(result.Sugar, macros.Sugar)]

AddMacros(result, macros) ==
    [Protein       |-> RAdd(result.Protein, macros.Protein),
     Carbohydrates |-> RAdd(result.Carbohydrates, macros.Carbohydrates),
     Fat           |-> RAdd(result.Fat, macros.Fat),
     Fiber         |-> RAdd(result.Fiber, macros.Fiber),
     Sugar         |-> RAdd(result.Sugar, macros.Sugar)]

AddMicros(result, micros) ==
    [VitaminA  |-> RAdd(result.VitaminA, micros.VitaminA),
     VitaminC  |-> RAdd(result.VitaminC, micros.VitaminC),
     Calcium   |-> RAdd(result.Calcium, micros.Calcium),
     Iron      |-> RAdd(result.Iron, micros.Iron),
     Sodium    |-> RAdd(result.Sodium, micros.Sodium),
     Potassium |-> RAdd(result.Potassium, micros.Potassium)]

\* SumMacros(macrosList...): the loop from the zero vector, in list order.
RECURSIVE SumMacrosFrom(_, _, _)
SumMacrosFrom(result, macrosList, i) ==
    IF i > Len(macrosList) THEN result
    ELSE SumMacrosFrom(AddMacros(result, macrosList[i]), macrosList, i + 1)

SumMacros(macrosList) == SumMacrosFrom(ZeroMacros, macrosList, 1)

RECURSIVE SumMicrosFrom(_, _, _)
SumMicrosFrom(result, microsList, i) ==
    IF i > Len(microsList) THEN result
    ELSE SumMicrosFrom(AddMicros(result, microsList[i]), microsList, i + 1)

SumMicros(microsList) == SumMicrosFrom(ZeroMicros, microsList, 1)

---------------------------------------------------------------------------
(* Text: len and strings.TrimSpace                                         *)

IsSpace(c) == c \in {" ", "\t", "\n", "\r"}

RECURSIVE TrimLeft(_)
TrimLeft(t) ==
    IF t # <<>> /\ IsSpace(Head(t)) THEN TrimLeft(Tail(t)) ELSE t

RECURSIVE TrimRight(_)
TrimRight(t) ==
    IF t # <<>> /\ IsSpace(t[Len(t)]) THEN TrimRight(SubSeq(t, 1, Len(t) - 1))
    ELSE t

TrimSpace(t) == TrimRight(TrimLeft(t))

\* A text is a sequence of characters.  "U+1EC7" stands for the one
\* character of that code point, which UTF-8 encodes in three bytes; every
\* other character used here is ASCII.
Width(c) == IF c = "U+1EC7" THEN 3 ELSE 1

\* len(s) of a Go string: the number of bytes of its UTF-8 encoding.
ByteLen(t) == Len(t) + 2 * Cardinality({i \in 1..Len(t) : Width(t[i]) = 3})

\* A text of n copies of the character c.
Rep(c, n) == [i \in 1..n |-> c]

\* request.MultiLanguage.Get: the value of the key, "" when it is absent.
Get(m, lang) == IF lang \in DOMAIN m THEN m[lang] ELSE <<>>

---------------------------------------------------------------------------
(* validator.FoodValidator (internal/pkg/validator/food_validator.go)      *)
(* An error is its message, abbreviated; "" is nil.                        *)

maxNameLength == 200
maxDescriptionLength == 1000
maxCalories == 1000
maxMacroValue == 100
caloriesTolerance == 10
maxTotalMacros == 999
maxGramEquivalent == 100000
maxImageURLLength == 2048

RECURSIVE validateNameLoop(_, _, _)

\* A variant that checks only the value of the key visited at i.
validateNameFirstOnly(name, order, i) ==
    IF i > Len(order) THEN ""
    ELSE LET trimmed == TrimSpace(name[order[i]]) IN
         IF trimmed = <<>> THEN "name value cannot be empty"
         ELSE IF ByteLen(trimmed) > maxNameLength
              THEN "name exceeds maximum length"
              ELSE ""

\* validateName; order is the order in which range visits the map's keys.
validateNameLoop(name, order, i) ==
    IF i > Len(order) THEN ""
    ELSE LET trimmed == TrimSpace(name[order[i]]) IN
         IF trimmed = <<>> THEN "name value cannot be empty"
         ELSE IF ByteLen(trimmed) > maxNameLength
              THEN "name exceeds maximum length"
              ELSE validateNameLoop(name, order, i + 1)

validateName(name, order) ==
    IF DOMAIN name = {} THEN "name must have at least one language"
    ELSE IF Get(name, "en") = <<>>
         THEN "name must have English (en) translation"
         ELSE validateNameLoop(name, order, 1)

\* validateDescription: every value is checked against the same bound, so
\* the result does not depend on the order of the range.
validateDescription(desc) ==
    IF DOMAIN desc = {} THEN ""
    ELSE IF \E lang \in DOMAIN desc :
                LET trimmed == TrimSpace(desc[lang]) IN
                trimmed # <<>> /\ ByteLen(trimmed) > maxDescriptionLength
         THEN "description exceeds maximum length"
         ELSE ""

\* A variant that rejects a value equal to the maximum.
OutOfMacroRangeStrict(x) == RLt(x, Zero) \/ RLe(R(maxMacroValue), x)

\* A variant without the upper end of the range.
OutOfMacroRangeBelow(x) == RLt(x, Zero)

\* x < 0 || x > v.maxMacroValue
OutOfMacroRange(x) == RLt(x, Zero) \/ RGt(x, R(maxMacroValue))

\* A variant that lets fiber count as a macro nutrient.
allMacrosAndFiberZero(macros) ==
    macros.Protein = Zero /\ macros.Carbohydrates = Zero /\ macros.Fat = Zero
    /\ macros.Fiber = Zero

\* macros.Protein == 0 && macros.Carbohydrates == 0 && macros.Fat == 0
allMacrosZero(macros) ==
    macros.Protein = Zero /\ macros.Carbohydrates = Zero /\ macros.Fat = Zero

validateNutrition(req) ==
    LET macros == req.Macros IN
    IF allMacrosZero(macros)
    THEN "at least one macro nutrient must be greater than 0"
    ELSE IF OutOfMacroRange(macros.Protein) THEN "protein must be between 0 and max"
    ELSE IF OutOfMacroRange(macros.Carbohydrates)
         THEN "carbohydrates must be between 0 and max"
    ELSE IF OutOfMacroRange(macros.Fat) THEN "fat must be between 0 and max"
    ELSE IF OutOfMacroRange(macros.Fiber) THEN "fiber must be between 0 and max"
    ELSE IF RLt(macros.Sugar, Zero) THEN "sugar cannot be negative"
    ELSE IF RGt(RAdd(RAdd(RAdd(macros.Protein, macros.Carbohydrates), macros.Fat),
                     macros.Fiber), R(maxTotalMacros))
         THEN "total macros exceed maximum"
    ELSE IF RLt(req.Calories, Zero) THEN "calories cannot be negative"
    ELSE IF RGt(req.Calories, R(maxCalories)) THEN "calories exceed maximum"
    ELSE IF RLt(req.Micros.VitaminA, Zero) THEN "vitaminA cannot be negative"
    ELSE IF RLt(req.Micros.VitaminC, Zero) THEN "vitaminC cannot be negative"
    ELSE IF RLt(req.Micros.Calcium, Zero) THEN "calcium cannot be negative"
    ELSE IF RLt(req.Micros.Iron, Zero) THEN "iron cannot be negative"
    ELSE IF RLt(req.Micros.Sodium, Zero) THEN "sodium cannot be negative"
    ELSE IF RLt(req.Micros.Potassium, Zero) THEN "potassium cannot be negative"
    ELSE ""

validUnits == {"gram", "kg", "piece", "cup", "ml", "box"}

\* A variant that rejects a gram equivalent equal to the maximum.
validateServingSizeStrict(size) ==
    IF size.Unit \notin validUnits THEN "invalid unit"
    ELSE IF RLe(size.Amount, Zero) THEN "amount must be greater than 0"
    ELSE IF RLe(size.GramEquivalent, Zero)
         THEN "gramEquivalent must be greater than 0"
    ELSE IF size.Unit = "gram" /\ size.Amount # size.GramEquivalent
         THEN "for gram unit, amount should equal gramEquivalent"
    ELSE IF RLe(R(maxGramEquivalent), size.GramEquivalent)
         THEN "gramEquivalent is unreasonably large"
    ELSE ""

\* The checks of one serving size, in the order of the loop body.
validateServingSize(size) ==
    IF size.Unit \notin validUnits THEN "invalid unit"
    ELSE IF RLe(size.Amount, Zero) THEN "amount must be greater than 0"
    ELSE IF RLe(size.GramEquivalent, Zero)
         THEN "gramEquivalent must be greater than 0"
    ELSE IF size.Unit = "gram" /\ size.Amount # size.GramEquivalent
         THEN "for gram unit, amount should equal gramEquivalent"
    ELSE IF RGt(size.GramEquivalent, R(maxGramEquivalent))
         THEN "gramEquivalent is unreasonably large"
    ELSE ""

RECURSIVE validateServingSizesLoop(_, _)

\* A variant that checks the first serving size only.
validateFirstServingSize(sizes, i) ==
    IF i > 1 THEN "" ELSE validateServingSize(sizes[i])

validateServingSizesLoop(sizes, i) ==
    IF i > Len(sizes) THEN ""
    ELSE IF validateServingSize(sizes[i]) # "" THEN validateServingSize(sizes[i])
    ELSE validateServingSizesLoop(sizes, i + 1)

\* A variant that takes any gram serving for the base serving.
hasAnyGram(sizes) == \E i \in 1..Len(sizes) : sizes[i].Unit = "gram"

\* hasGramBase after the loop has visited every entry.
hasGramBase(sizes) ==
    \E i \in 1..Len(sizes) :
        sizes[i].Unit = "gram" /\ sizes[i].Amount = R(100)
        /\ sizes[i].GramEquivalent = R(100)

\* A variant without the check for an empty list.
validateServingSizesOrNone(sizes) ==
    IF validateServingSizesLoop(sizes, 1) # ""
    THEN [err |-> validateServingSizesLoop(sizes, 1), warn |-> FALSE]
    ELSE [err |-> "", warn |-> ~hasGramBase(sizes)]

\* validateServingSizes: the error and whether logger.Warn was called.
validateServingSizes(sizes) ==
    IF Len(sizes) = 0
    THEN [err |-> "at least one serving size is required", warn |-> FALSE]
    ELSE IF validateServingSizesLoop(sizes, 1) # ""
         THEN [err |-> validateServingSizesLoop(sizes, 1), warn |-> FALSE]
         ELSE [err |-> "", warn |-> ~hasGramBase(sizes)]

\* expectedCalories := Protein*4 + Carbohydrates*4 + Fat*9 + Fiber*2
expectedCalories(req) ==
    RAdd(RAdd(RAdd(RMul(req.Macros.Protein, R(4)),
                   RMul(req.Macros.Carbohydrates, R(4))),
              RMul(req.Macros.Fat, R(9))),
         RMul(req.Macros.Fiber, R(2)))

\* A variant that rejects a difference equal to the tolerance.
validateCaloriesConsistencyStrict(req) ==
    LET diff == RSub(req.Calories, expectedCalories(req)) IN
    IF RLe(diff, R(-caloriesTolerance)) \/ RLe(R(caloriesTolerance), diff)
    THEN "calories don't match calculated calories from macros"
    ELSE ""

validateCaloriesConsistency(req) ==
    LET diff == RSub(req.Calories, expectedCalories(req)) IN
    IF RLt(diff, R(-caloriesTolerance)) \/ RGt(diff, R(caloriesTolerance))
    THEN "calories don't match calculated calories from macros"
    ELSE ""

\* validateImageURL.  An image URL is given by what the code reads of it:
\* its length, whether it is blank, and what net/url.Parse returns for it.
validateImageURL(u) ==
    IF u.blank THEN ""
    ELSE IF ~u.parses THEN "invalid URL format"
    ELSE IF u.scheme # "http" /\ u.scheme # "https"
         THEN "URL must use http or https scheme"
    ELSE IF u.host = "" THEN "URL must have a valid host"
    ELSE IF u.len > maxImageURLLength THEN "image URL exceeds maximum length"
    ELSE ""

\* A variant that looks at the serving sizes before the nutrition values.
ValidateStagesSizesFirst(name, description, nutrition, ss, consistency, imageURL) ==
    IF name # ""
    THEN [stage |-> "name validation failed", err |-> name, warn |-> FALSE]
    ELSE IF description # ""
    THEN [stage |-> "description validation failed", err |-> description,
          warn |-> FALSE]
    ELSE IF ss.err # ""
    THEN [stage |-> "serving sizes validation failed", err |-> ss.err,
          warn |-> FALSE]
    ELSE IF nutrition # ""
    THEN [stage |-> "nutrition validation failed", err |-> nutrition,
          warn |-> ss.warn]
    ELSE IF consistency # ""
    THEN [stage |-> "calories consistency validation failed",
          err |-> consistency, warn |-> ss.warn]
    ELSE IF imageURL # ""
    THEN [stage |-> "image URL validation failed", err |-> imageURL,
          warn |-> ss.warn]
    ELSE [stage |-> "", err |-> "", warn |-> ss.warn]

\* The stages of ValidateCreateRequest in order, given each stage's verdict:
\* the first failing stage, its error and the warning logged on the way.
\* stage "" is the nil error.
ValidateStages(name, description, nutrition, ss, consistency, imageURL) ==
    IF name # ""
    THEN [stage |-> "name validation failed", err |-> name, warn |-> FALSE]
    ELSE IF description # ""
    THEN [stage |-> "description validation failed", err |-> description,
          warn |-> FALSE]
    ELSE IF nutrition # ""
    THEN [stage |-> "nutrition validation failed", err |-> nutrition,
          warn |-> FALSE]
    ELSE IF ss.err # ""
    THEN [stage |-> "serving sizes validation failed", err |-> ss.err,
          warn |-> FALSE]
    ELSE IF consistency # ""
    THEN [stage |-> "calories consistency validation failed",
          err |-> consistency, warn |-> ss.warn]
    ELSE IF imageURL # ""
    THEN [stage |-> "image URL validation failed", err |-> imageURL,
          warn |-> ss.warn]
    ELSE [stage |-> "", err |-> "", warn |-> ss.warn]

ValidateCreateRequest(req, order) ==
    ValidateStages(validateName(req.Name, order),
                   validateDescription(req.Description),
                   validateNutrition(req),
                   validateServingSizes(req.ServingSizes),
                   validateCaloriesConsistency(req),
                   IF req.ImageURL.len > 0 THEN validateImageURL(req.ImageURL)
                   ELSE "")

---------------------------------------------------------------------------
(* Identifiers.  <<"oid", n>> is the hex string of ObjectID number n,      *)
(* <<"bad", 0>> a string that is no ObjectID hex, <<"blank", 0>> a string  *)
(* of white space only and <<"empty", 0>> the empty string.                *)

OID(n) == <<"oid", n>>
BadID == <<"bad", 0>>
BlankID == <<"blank", 0>>
EmptyID == <<"empty", 0>>

\* primitive.ObjectIDFromHex succeeds
IsHex(id) == id[1] = "oid"

\* strings.TrimSpace(id) == ""
IsBlankID(id) == id[1] \in {"blank", "empty"}

\* strings.TrimSpace(s) == "" for a unit given as a whole string
IsBlankString(s) == s \in {"", " "}

---------------------------------------------------------------------------
(* domain.FoodItemFromRequest and FoodService.CreateFood                   *)

ServingSizeFromRequest(servingSize) ==
    [Unit |-> servingSize.Unit, Amount |-> servingSize.Amount,
     GramEquivalent |-> servingSize.GramEquivalent]

FoodItemFromRequest(req, userID) ==
    [Name         |-> req.Name,
     Description  |-> req.Description,
     Macros       |-> req.Macros,
     Micros       |-> req.Micros,
     ServingSizes |-> [i \in 1..Len(req.ServingSizes) |->
                          ServingSizeFromRequest(req.ServingSizes[i])],
     Calories     |-> req.Calories,
     CreatedBy    |-> userID,
     ImageURL     |-> req.ImageURL]

\* foodRepository.Create: InsertOne, which fails when the database does.
FoodRepoCreate(store, food, dbOk) ==
    IF dbOk THEN [store |-> Append(store, food), err |-> ""]
    ELSE [store |-> store, err |-> "failed to create food item"]

\* FoodService.CreateFood after the validator returned v.
CreateValidated(store, userID, req, dbOk, v) ==
    IF v.stage # ""
    THEN [err |-> "validation failed", stage |-> v.stage, detail |-> v.err,
          store |-> store, warn |-> v.warn,
          calls |-> <<"validator.ValidateCreateRequest">>]
    ELSE LET c == FoodRepoCreate(store, FoodItemFromRequest(req, userID), dbOk)
         IN  [err |-> IF c.err # "" THEN "failed to create food" ELSE "",
              stage |-> "", detail |-> c.err, store |-> c.store,
              warn |-> v.warn,
              calls |-> <<"validator.ValidateCreateRequest",
                          "foodRepo.Create">>]

\* FoodService.CreateFood: the error, the store afterwards, the collaborators
\* called in order and whether the validator logged its warning.
CreateFood(store, userID, req, order, dbOk) ==
    CreateValidated(store, userID, req, dbOk, ValidateCreateRequest(req, order))

---------------------------------------------------------------------------
(* validator.MealValidator, the one the meal handler is built with         *)
(* (src/unnamed/part_017)                                                  *)

mealMaxNameLength == 200
mealMaxDescriptionLength == 1000
maxTags == 20
maxTagLength == 50

mealValidateName(name) ==
    LET trimmed == TrimSpace(name) IN
    IF trimmed = <<>> THEN "name cannot be empty"
    ELSE IF Len(trimmed) > mealMaxNameLength THEN "name exceeds maximum length"
    ELSE ""

mealValidateDescription(description) ==
    IF Len(description) > mealMaxDescriptionLength
    THEN "description exceeds maximum length"
    ELSE ""

validTypes == {"breakfast", "lunch", "dinner", "snack"}

validateMealType(mealType) ==
    IF mealType \notin validTypes THEN "invalid meal type" ELSE ""

RECURSIVE validateFoodItemsLoop(_, _, _)

\* A variant whose foodItemMap is keyed by the food alone.
RECURSIVE validateFoodItemsLoopByFood(_, _, _)
validateFoodItemsLoopByFood(foodItems, i, seen) ==
    IF i > Len(foodItems) THEN ""
    ELSE LET item == foodItems[i]
             key == item.FoodItemID
         IN  IF IsBlankID(item.FoodItemID) THEN "foodItemId is required"
             ELSE IF IsBlankString(item.ServingUnit) THEN "servingUnit is required"
             ELSE IF RLe(item.Amount, Zero) THEN "amount must be greater than 0"
             ELSE IF key \in seen
                  THEN "duplicate food item with same foodItemId and servingUnit"
             ELSE validateFoodItemsLoopByFood(foodItems, i + 1, seen \cup {key})

\* The loop of validateFoodItems from item i on; seen is foodItemMap, whose
\* key "id:unit" is kept as the pair of the two strings.
validateFoodItemsLoop(foodItems, i, seen) ==
    IF i > Len(foodItems) THEN ""
    ELSE LET item == foodItems[i]
             key == <<item.FoodItemID, item.ServingUnit>>
         IN  IF IsBlankID(item.FoodItemID) THEN "foodItemId is required"
             ELSE IF IsBlankString(item.ServingUnit) THEN "servingUnit is required"
             ELSE IF RLe(item.Amount, Zero) THEN "amount must be greater than 0"
             ELSE IF key \in seen
                  THEN "duplicate food item with same foodItemId and servingUnit"
             ELSE validateFoodItemsLoop(foodItems, i + 1, seen \cup {key})

validateFoodItems(foodItems) ==
    IF Len(foodItems) = 0 THEN "at least one food item is required"
    ELSE validateFoodItemsLoop(foodItems, 1, {})

RECURSIVE validateTagsLoop(_, _)
validateTagsLoop(tags, i) ==
    IF i > Len(tags) THEN ""
    ELSE LET trimmed == TrimSpace(tags[i]) IN
         IF trimmed = <<>> THEN "tag cannot be empty"
         ELSE IF Len(trimmed) > maxTagLength THEN "tag exceeds maximum length"
         ELSE validateTagsLoop(tags, i + 1)

validateTags(tags) ==
    IF Len(tags) > maxTags THEN "maximum number of tags exceeded"
    ELSE validateTagsLoop(tags, 1)

\* MealValidator.ValidateCreateRequest
MealValidateCreateRequest(req) ==
    IF mealValidateName(req.Name) # "" THEN "name validation failed"
    ELSE IF req.Description # <<>> /\ mealValidateDescription(req.Description) # ""
         THEN "description validation failed"
    ELSE IF validateMealType(req.MealType) # "" THEN "meal type validation failed"
    ELSE IF validateFoodItems(req.FoodItems) # ""
         THEN "food items validation failed"
    ELSE IF Len(req.Tags) > 0 /\ validateTags(req.Tags) # ""
         THEN "tags validation failed"
    ELSE ""

\* MealValidator.ValidateUpdateRequest
MealValidateUpdateRequest(req) ==
    IF req.Name # <<>> /\ mealValidateName(req.Name) # ""
    THEN "name validation failed"
    ELSE IF req.Description # <<>> /\ mealValidateDescription(req.Description) # ""
         THEN "description validation failed"
    ELSE IF req.MealType # "" /\ validateMealType(req.MealType) # ""
         THEN "meal type validation failed"
    ELSE IF Len(req.FoodItems) > 0 /\ validateFoodItems(req.FoodItems) # ""
         THEN "food items validation failed"
    ELSE IF Len(req.Tags) > 0 /\ validateTags(req.Tags) # ""
         THEN "tags validation failed"
    ELSE ""

\* MealValidator.ValidateAddFoodRequest
ValidateAddFoodRequest(req) ==
    IF validateFoodItems(req.FoodItems) # "" THEN "food items validation failed"
    ELSE ""

---------------------------------------------------------------------------
(* service.MealService (src/unnamed/part_027) over the two stores          *)

\* The result of a CalculateNutrientsForServing call that was never made.
NoCalc ==
    [calories |-> Zero, macros |-> ZeroMacros, micros |-> ZeroMicros,
     err |-> "not called"]

\* foodRepository.GetByID / mealTemplateRepository.GetByID: FindOne by _id.
Found(store, id) == IsHex(id) /\ id[2] \in 1..Len(store)

\* The food name snapshot: the English name, else any name of the map.
FoodName(food) ==
    IF Get(food.Name, "en") # <<>> THEN food.Name["en"]
    ELSE IF DOMAIN food.Name = {} THEN <<>>
    ELSE food.Name[CHOOSE lang \in DOMAIN food.Name : TRUE]

\* processFoodItems returning the error e: no items, zero totals.
Failed(acc, e, calls, c) ==
    [foodItems |-> <<>>, totalCalories |-> Zero, totalMacros |-> ZeroMacros,
     totalMicros |-> ZeroMicros, err |-> e, calls |-> calls,
     resolved |-> Len(acc.foodItems), calc |-> c]

\* The line item built from the calculator's result c, appended, and the
\* running total and the two lists extended.
AppendItem(acc, foodItemReq, food, c) ==
    [foodItems |-> Append(acc.foodItems,
        [FoodItemID  |-> foodItemReq.FoodItemID,
         FoodName    |-> FoodName(food),
         ServingUnit |-> foodItemReq.ServingUnit,
         Amount      |-> foodItemReq.Amount,
         Calories    |-> c.calories,
         Macros      |-> c.macros,
         Micros      |-> c.micros]),
     totalCalories |-> RAdd(acc.totalCalories, c.calories),
     allMacros |-> Append(acc.allMacros, c.macros),
     allMicros |-> Append(acc.allMicros, c.micros),
     calls |-> acc.calls \o <<"foodRepo.GetByID",
                              "calculator.CalculateNutrientsForServing">>,
     calc |-> c]

\* The loop of processFoodItems from request i on.  acc carries foodItems,
\* totalCalories, allMacros, allMicros and the collaborators called so far;
\* processCalculated is the rest of one iteration, c being the calculator's
\* result for request i.
RECURSIVE processFoodItemsLoop(_, _, _, _)
RECURSIVE processCalculated(_, _, _, _, _)
processCalculated(foodStore, foodItemReqs, i, acc, c) ==
    IF c.err # ""
    THEN Failed(acc, "failed to calculate nutrients",
                acc.calls \o <<"foodRepo.GetByID",
                               "calculator.CalculateNutrientsForServing">>, c)
    ELSE processFoodItemsLoop(foodStore, foodItemReqs, i + 1,
            AppendItem(acc, foodItemReqs[i],
                       foodStore[foodItemReqs[i].FoodItemID[2]], c))

processFoodItemsLoop(foodStore, foodItemReqs, i, acc) ==
    IF i > Len(foodItemReqs)
    THEN [foodItems     |-> acc.foodItems,
          totalCalories |-> acc.totalCalories,
          totalMacros   |-> SumMacros(acc.allMacros),
          totalMicros   |-> SumMicros(acc.allMicros),
          err |-> "", calls |-> acc.calls,
          resolved |-> Len(acc.foodItems), calc |-> acc.calc]
    ELSE IF ~IsHex(foodItemReqs[i].FoodItemID)
    THEN Failed(acc, "invalid food item ID", acc.calls, acc.calc)
    ELSE IF ~Found(foodStore, foodItemReqs[i].FoodItemID)
    THEN Failed(acc, "food item not found",
                Append(acc.calls, "foodRepo.GetByID"), acc.calc)
    ELSE processCalculated(foodStore, foodItemReqs, i, acc,
            CalculateNutrientsForServing(
                foodStore[foodItemReqs[i].FoodItemID[2]],
                foodItemReqs[i].ServingUnit, foodItemReqs[i].Amount))

processFoodItems(foodStore, foodItemReqs) ==
    processFoodItemsLoop(foodStore, foodItemReqs, 1,
        [foodItems |-> <<>>, totalCalories |-> Zero, allMacros |-> <<>>,
         allMicros |-> <<>>, calls |-> <<>>, calc |-> NoCalc])

\* What a service method returns: the error ("" is nil), the template store
\* afterwards, the collaborators called, and of processFoodItems the number
\* of items it had resolved and the last calculator result.
ServiceResult(err, store, calls, resolved, c) ==
    [err |-> err, store |-> store, calls |-> calls, resolved |-> resolved,
     calc |-> c]

\* mealTemplateRepository.Create: InsertOne.
TemplateRepoCreate(store, template, dbOk) ==
    IF dbOk THEN [store |-> Append(store, template), err |-> ""]
    ELSE [store |-> store, err |-> "failed to create meal template"]

\* mealTemplateRepository.Update: UpdateOne with filter _id and $set of the
\* whole document; a filter that matches nothing is no error.
TemplateRepoUpdate(store, id, template, dbOk) ==
    IF ~dbOk THEN [store |-> store, err |-> "failed to update meal template"]
    ELSE IF id[2] \in 1..Len(store) /\ ~store[id[2]].deleted
         THEN [store |-> [store EXCEPT ![id[2]] = template], err |-> ""]
         ELSE [store |-> store, err |-> ""]

\* mealTemplateRepository.GetByID finds a document
TemplateFound(store, id) == Found(store, id) /\ ~store[id[2]].deleted

\* MealService.CreateTemplate after processFoodItems returned p.
CreateProcessed(store, userID, req, dbOk, p) ==
    IF p.err # ""
    THEN ServiceResult("failed to process food items", store, p.calls,
                       p.resolved, p.calc)
    ELSE
    LET template ==
            [UserID        |-> userID,
             Name          |-> req.Name,
             Description   |-> req.Description,
             MealType      |-> req.MealType,
             FoodItems     |-> p.foodItems,
             TotalCalories |-> p.totalCalories,
             TotalMacros   |-> p.totalMacros,
             TotalMicros   |-> p.totalMicros,
             Tags          |-> req.Tags,
             IsPublic      |-> req.IsPublic,
             deleted       |-> FALSE]
        c == TemplateRepoCreate(store, template, dbOk)
    IN  ServiceResult(
            IF c.err # "" THEN "failed to create meal template" ELSE "",
            c.store, Append(p.calls, "mealTemplateRepo.Create"),
            p.resolved, p.calc)

\* MealService.CreateTemplate
CreateTemplate(foodStore, store, userID, req, dbOk) ==
    IF ~IsHex(userID)
    THEN ServiceResult("invalid user ID", store, <<>>, 0, NoCalc)
    ELSE CreateProcessed(store, userID, req, dbOk,
                         processFoodItems(foodStore, req.FoodItems))

\* A variant that overwrites the calorie total with that of the new items.
AddTotalsOverwriting(template, p) ==
    [template EXCEPT
        !.FoodItems = template.FoodItems \o p.foodItems,
        !.TotalCalories = p.totalCalories,
        !.TotalMacros = SumMacros(<<template.TotalMacros, p.totalMacros>>),
        !.TotalMicros = SumMicros(<<template.TotalMicros, p.totalMicros>>)]

\* A variant that puts the new items in front of the old ones.
AddTotalsPrepending(template, p) ==
    [template EXCEPT
        !.FoodItems = p.foodItems \o template.FoodItems,
        !.TotalCalories = RAdd(template.TotalCalories, p.totalCalories),
        !.TotalMacros = SumMacros(<<template.TotalMacros, p.totalMacros>>),
        !.TotalMicros = SumMicros(<<template.TotalMicros, p.totalMicros>>)]

\* "Update template": the new items appended and their totals added to the
\* template's.
AddTotals(template, p) ==
    [template EXCEPT
        !.FoodItems = template.FoodItems \o p.foodItems,
        !.TotalCalories = RAdd(template.TotalCalories, p.totalCalories),
        !.TotalMacros = SumMacros(<<template.TotalMacros, p.totalMacros>>),
        !.TotalMicros = SumMicros(<<template.TotalMicros, p.totalMicros>>)]

\* A variant that appends to the stored document in place of the copy read.
WriteBackMerging(store, templateID, template, p, dbOk) ==
    TemplateRepoUpdate(store, templateID, AddTotals(store[templateID[2]], p),
                       dbOk)

\* The end of AddFoodToTemplate: the copy of the template read by GetByID,
\* extended by the new items, replaces the stored document.
WriteBack(store, templateID, template, p, dbOk) ==
    TemplateRepoUpdate(store, templateID, AddTotals(template, p), dbOk)

\* A variant that refuses items whose pair the template already holds.
AddProcessedDistinct(store, templateID, dbOk, p) ==
    IF p.err # "" \/ \E i \in 1..Len(p.foodItems) :
                       \E j \in 1..Len(store[templateID[2]].FoodItems) :
                           /\ p.foodItems[i].FoodItemID
                                = store[templateID[2]].FoodItems[j].FoodItemID
                           /\ p.foodItems[i].ServingUnit
                                = store[templateID[2]].FoodItems[j].ServingUnit
    THEN ServiceResult("failed to process food items", store,
                       <<"mealTemplateRepo.GetByID">> \o p.calls,
                       p.resolved, p.calc)
    ELSE
    LET u == WriteBack(store, templateID, store[templateID[2]], p, dbOk)
    IN  ServiceResult(
            IF u.err # "" THEN "failed to update template" ELSE "",
            u.store,
            <<"mealTemplateRepo.GetByID">> \o p.calls
                \o <<"mealTemplateRepo.Update">>,
            p.resolved, p.calc)

\* MealService.AddFoodToTemplate after processFoodItems returned p.
AddProcessed(store, templateID, dbOk, p) ==
    IF p.err # ""
    THEN ServiceResult("failed to process food items", store,
                       <<"mealTemplateRepo.GetByID">> \o p.calls,
                       p.resolved, p.calc)
    ELSE
    LET u == WriteBack(store, templateID, store[templateID[2]], p, dbOk)
    IN  ServiceResult(
            IF u.err # "" THEN "failed to update template" ELSE "",
            u.store,
            <<"mealTemplateRepo.GetByID">> \o p.calls
                \o <<"mealTemplateRepo.Update">>,
            p.resolved, p.calc)

\* MealService.AddFoodToTemplate
AddFoodToTemplate(foodStore, store, userID, templateID, req, dbOk) ==
    IF ~IsHex(userID)
    THEN ServiceResult("invalid user ID", store, <<>>, 0, NoCalc)
    ELSE IF ~IsHex(templateID)
    THEN ServiceResult("invalid template ID", store, <<>>, 0, NoCalc)
    ELSE IF ~TemplateFound(store, templateID)
    THEN ServiceResult("failed to get template", store,
                       <<"mealTemplateRepo.GetByID">>, 0, NoCalc)
    ELSE IF store[templateID[2]].UserID # userID
    THEN ServiceResult("template not found or access denied", store,
                       <<"mealTemplateRepo.GetByID">>, 0, NoCalc)
    ELSE AddProcessed(store, templateID, dbOk,
                      processFoodItems(foodStore, req.FoodItems))

\* AddFoodToTemplate up to its write: it has returned an error, or it holds
\* the template it read and the result p of processFoodItems.
Stopped(err) == [pc |-> "done", err |-> err, wrote |-> FALSE]

AddFoodRead(store, userID, templateID, req, p) ==
    IF ~IsHex(userID) THEN Stopped("invalid user ID")
    ELSE IF ~IsHex(templateID) THEN Stopped("invalid template ID")
    ELSE IF ~TemplateFound(store, templateID)
    THEN Stopped("failed to get template")
    ELSE IF store[templateID[2]].UserID # userID
    THEN Stopped("template not found or access denied")
    ELSE IF p.err # "" THEN Stopped("failed to process food items")
    ELSE [pc |-> "read", templateID |-> templateID, req |-> req,
          template |-> store[templateID[2]], p |-> p]

\* AddFoodToTemplate after mealTemplateRepo.Update returned u.
AddFoodWritten(r, dbOk, u) ==
    [pc |-> "done",
     err |-> IF u.err # "" THEN "failed to update template" ELSE "",
     wrote |-> TRUE, dbOk |-> dbOk, templateID |-> r.templateID,
     req |-> r.req, template |-> r.template, p |-> r.p]

\* The metadata assignments of UpdateTemplate ("Update fields if provided").
UpdateFields(template, req) ==
    [template EXCEPT
        !.Name = IF req.Name # <<>> THEN req.Name ELSE @,
        !.Description = IF req.Description # <<>> THEN req.Description ELSE @,
        !.MealType = IF req.MealType # "" THEN req.MealType ELSE @,
        !.Tags = IF req.TagsSet THEN req.Tags ELSE @,
        !.IsPublic = IF req.IsPublic = "true" THEN TRUE
                     ELSE IF req.IsPublic = "false" THEN FALSE ELSE @]

\* A variant that replaces the items and keeps the totals.
ReplacedItemsOnly(template, req, p) ==
    [UpdateFields(template, req) EXCEPT !.FoodItems = p.foodItems]

\* A variant that appends to the items and adds to the totals.
ReplacedByAppending(template, req, p) ==
    [UpdateFields(template, req) EXCEPT
        !.FoodItems = @ \o p.foodItems,
        !.TotalCalories = RAdd(@, p.totalCalories),
        !.TotalMacros = SumMacros(<<@, p.totalMacros>>),
        !.TotalMicros = SumMicros(<<@, p.totalMicros>>)]

\* The template after "Update fields if provided" and "Update food items if
\* provided", processFoodItems having returned p without error.
Replaced(template, req, p) ==
    [UpdateFields(template, req) EXCEPT
        !.FoodItems = p.foodItems,
        !.TotalCalories = p.totalCalories,
        !.TotalMacros = p.totalMacros,
        !.TotalMicros = p.totalMicros]

\* "Update food items if provided", processFoodItems having returned p.
UpdateProcessed(store, templateID, req, dbOk, p) ==
    IF p.err # ""
    THEN ServiceResult("failed to process food items", store,
                       <<"mealTemplateRepo.GetByID">> \o p.calls,
                       p.resolved, p.calc)
    ELSE
    LET u == TemplateRepoUpdate(store, templateID,
                 Replaced(store[templateID[2]], req, p), dbOk)
    IN  ServiceResult(
            IF u.err # "" THEN "failed to update template" ELSE "",
            u.store,
            <<"mealTemplateRepo.GetByID">> \o p.calls
                \o <<"mealTemplateRepo.Update">>,
            p.resolved, p.calc)

\* UpdateTemplate from its start to the call of mealTemplateRepo.Update:
\* the copy it read with the request applied to it.
UpdateRead(store, userID, templateID, req, p) ==
    IF ~IsHex(userID) THEN Stopped("invalid user ID")
    ELSE IF ~IsHex(templateID) THEN Stopped("invalid template ID")
    ELSE IF ~TemplateFound(store, templateID)
    THEN Stopped("failed to get template")
    ELSE IF store[templateID[2]].UserID # userID
    THEN Stopped("template not found or access denied")
    ELSE IF Len(req.FoodItems) > 0 /\ p.err # ""
    THEN Stopped("failed to process food items")
    ELSE [pc |-> "updating", templateID |-> templateID, req |-> req,
          template |-> store[templateID[2]],
          updated |-> IF Len(req.FoodItems) > 0
                      THEN Replaced(store[templateID[2]], req, p)
                      ELSE UpdateFields(store[templateID[2]], req)]

\* UpdateTemplate after mealTemplateRepo.Update returned u.
UpdateWritten(r, dbOk, u) ==
    [pc |-> "done",
     err |-> IF u.err # "" THEN "failed to update template" ELSE "",
     wrote |-> TRUE, dbOk |-> dbOk, templateID |-> r.templateID,
     req |-> r.req, template |-> r.template, updated |-> r.updated]

\* A variant that replaces the items with whatever list the request has.
UpdateTemplateClearing(foodStore, store, userID, templateID, req, dbOk) ==
    IF ~IsHex(userID)
    THEN ServiceResult("invalid user ID", store, <<>>, 0, NoCalc)
    ELSE IF ~IsHex(templateID)
    THEN ServiceResult("invalid template ID", store, <<>>, 0, NoCalc)
    ELSE IF ~TemplateFound(store, templateID)
    THEN ServiceResult("failed to get template", store,
                       <<"mealTemplateRepo.GetByID">>, 0, NoCalc)
    ELSE IF store[templateID[2]].UserID # userID
    THEN ServiceResult("template not found or access denied", store,
                       <<"mealTemplateRepo.GetByID">>, 0, NoCalc)
    ELSE UpdateProcessed(store, templateID, req, dbOk,
                         processFoodItems(foodStore, req.FoodItems))

\* MealService.UpdateTemplate
UpdateTemplate(foodStore, store, userID, templateID, req, dbOk) ==
    IF ~IsHex(userID)
    THEN ServiceResult("invalid user ID", store, <<>>, 0, NoCalc)
    ELSE IF ~IsHex(templateID)
    THEN ServiceResult("invalid template ID", store, <<>>, 0, NoCalc)
    ELSE IF ~TemplateFound(store, templateID)
    THEN ServiceResult("failed to get template", store,
                       <<"mealTemplateRepo.GetByID">>, 0, NoCalc)
    ELSE IF store[templateID[2]].UserID # userID
    THEN ServiceResult("template not found or access denied", store,
                       <<"mealTemplateRepo.GetByID">>, 0, NoCalc)
    ELSE IF Len(req.FoodItems) > 0
    THEN UpdateProcessed(store, templateID, req, dbOk,
                         processFoodItems(foodStore, req.FoodItems))
    ELSE
        LET u == TemplateRepoUpdate(store, templateID,
                    UpdateFields(store[templateID[2]], req), dbOk)
        IN  ServiceResult(
                IF u.err # "" THEN "failed to update template" ELSE "",
                u.store,
                <<"mealTemplateRepo.GetByID", "mealTemplateRepo.Update">>,
                0, NoCalc)

\* The deleted document's place in the store: ids are never reused.
Tombstone == [deleted |-> TRUE]

\* mealTemplateRepository.Delete: DeleteOne by _id.
TemplateRepoDelete(store, id, dbOk) ==
    IF ~dbOk THEN [store |-> store, err |-> "failed to delete meal template"]
    ELSE IF id[2] \in 1..Len(store)
         THEN [store |-> [store EXCEPT ![id[2]] = Tombstone], err |-> ""]
         ELSE [store |-> store, err |-> ""]

\* A variant that lets anyone delete a public template.
DeleteTemplatePublic(store, userID, templateID, dbOk) ==
    IF ~IsHex(userID)
    THEN ServiceResult("invalid user ID", store, <<>>, 0, NoCalc)
    ELSE IF ~IsHex(templateID)
    THEN ServiceResult("invalid template ID", store, <<>>, 0, NoCalc)
    ELSE IF ~TemplateFound(store, templateID)
    THEN ServiceResult("failed to get template", store,
                       <<"mealTemplateRepo.GetByID">>, 0, NoCalc)
    ELSE IF store[templateID[2]].UserID # userID
            /\ ~store[templateID[2]].IsPublic
    THEN ServiceResult("template not found or access denied", store,
                       <<"mealTemplateRepo.GetByID">>, 0, NoCalc)
    ELSE
    LET d == TemplateRepoDelete(store, templateID, dbOk)
    IN  ServiceResult(
            IF d.err # "" THEN "failed to delete template" ELSE "",
            d.store,
            <<"mealTemplateRepo.GetByID", "mealTemplateRepo.Delete">>,
            0, NoCalc)

\* MealService.DeleteTemplate
DeleteTemplate(store, userID, templateID, dbOk) ==
    IF ~IsHex(userID)
    THEN ServiceResult("invalid user ID", store, <<>>, 0, NoCalc)
    ELSE IF ~IsHex(templateID)
    THEN ServiceResult("invalid template ID", store, <<>>, 0, NoCalc)
    ELSE IF ~TemplateFound(store, templateID)
    THEN ServiceResult("failed to get template", store,
                       <<"mealTemplateRepo.GetByID">>, 0, NoCalc)
    ELSE IF store[templateID[2]].UserID # userID
    THEN ServiceResult("template not found or access denied", store,
                       <<"mealTemplateRepo.GetByID">>, 0, NoCalc)
    ELSE
    LET d == TemplateRepoDelete(store, templateID, dbOk)
    IN  ServiceResult(
            IF d.err # "" THEN "failed to delete template" ELSE "",
            d.store,
            <<"mealTemplateRepo.GetByID", "mealTemplateRepo.Delete">>,
            0, NoCalc)

---------------------------------------------------------------------------
(* rest.MealHandler (src/internal/handler/middleware/response.go)          *)

\* middleware.GetUserIDFromContext found no user id
NoUser == <<"none", 0>>

\* structValidator.Struct on a CreateMealTemplateRequest: the validate tags
\* of the request's fields (the items are not dived into).
StructValidateCreate(req) ==
    IF req.Name = <<>> THEN "Name required"
    ELSE IF req.MealType \notin {"breakfast", "lunch", "dinner", "snack"}
         THEN "MealType required,oneof"
    ELSE IF Len(req.FoodItems) < 1 THEN "FoodItems required,min=1"
    ELSE ""

\* structValidator.Struct on an UpdateMealTemplateRequest: no validate tags.
StructValidateUpdate(req) == ""

\* structValidator.Struct on an AddFoodToTemplateRequest, whose declaration
\* is not among the sources: tagsOk is its verdict.
StructValidateAddFood(req, tagsOk) == IF tagsOk THEN "" ELSE "validation failed"

\* validateRequest / validateBusinessLogic: TRUE when the handler goes on.
validateRequest(err) == err = ""

\* A variant that goes on whatever the validator said.
validateBusinessLogicSkipped(err) == TRUE

validateBusinessLogic(err) == err = ""

\* What a handler leaves behind: the response status, the validators'
\* verdict, the service's error, the store, and the collaborators called.
HandlerResult(status, validation, r) ==
    [status |-> status, validation |-> validation, err |-> r.err,
     store |-> r.store, calls |-> r.calls, resolved |-> r.resolved,
     calc |-> r.calc]

NotCalled(store) == ServiceResult("", store, <<>>, 0, NoCalc)

\* handleServiceError and the success response
ServiceStatus(err) ==
    IF err = "" THEN "ok"
    ELSE IF err = "template not found or access denied" THEN "not found"
    ELSE "internal error"

\* The tail every handler shares: struct validation, business validation,
\* then the service call.  sv and bv are the two verdicts, svName and bvName
\* the validators' names, svcName the service method and svc its result.
ValidateThenCall(store, sv, bv, svName, bvName, svcName, svc) ==
    IF ~validateRequest(sv)
    THEN HandlerResult("validation error", sv,
            [NotCalled(store) EXCEPT !.calls = <<svName>>])
    ELSE IF ~validateBusinessLogic(bv)
    THEN HandlerResult("validation error", bv,
            [NotCalled(store) EXCEPT !.calls = <<svName, bvName>>])
    ELSE HandlerResult(ServiceStatus(svc.err), IF sv # "" THEN sv ELSE bv,
            [svc EXCEPT !.calls = <<svName, bvName, svcName>> \o svc.calls])

\* MealHandler.CreateTemplate
HandleCreateTemplate(foodStore, store, userID, bindOk, req, dbOk) ==
    IF userID = NoUser THEN HandlerResult("unauthorized", "", NotCalled(store))
    ELSE IF ~bindOk THEN HandlerResult("bad request", "", NotCalled(store))
    ELSE ValidateThenCall(store, StructValidateCreate(req),
            MealValidateCreateRequest(req),
            "structValidator.Struct", "mealValidator.ValidateCreateRequest",
            "mealService.CreateTemplate",
            CreateTemplate(foodStore, store, userID, req, dbOk))

\* MealHandler.AddFoodToTemplate
HandleAddFoodToTemplate(foodStore, store, userID, templateID, bindOk, tagsOk, req, dbOk) ==
    IF userID = NoUser THEN HandlerResult("unauthorized", "", NotCalled(store))
    ELSE IF templateID = EmptyID
    THEN HandlerResult("bad request", "", NotCalled(store))
    ELSE IF ~bindOk THEN HandlerResult("bad request", "", NotCalled(store))
    ELSE ValidateThenCall(store, StructValidateAddFood(req, tagsOk),
            ValidateAddFoodRequest(req),
            "structValidator.Struct", "mealValidator.ValidateAddFoodRequest",
            "mealService.AddFoodToTemplate",
            AddFoodToTemplate(foodStore, store, userID, templateID, req, dbOk))

\* MealHandler.UpdateTemplate
HandleUpdateTemplate(foodStore, store, userID, templateID, bindOk, req, dbOk) ==
    IF userID = NoUser THEN HandlerResult("unauthorized", "", NotCalled(store))
    ELSE IF templateID = EmptyID
    THEN HandlerResult("bad request", "", NotCalled(store))
    ELSE IF ~bindOk THEN HandlerResult("bad request", "", NotCalled(store))
    ELSE ValidateThenCall(store, StructValidateUpdate(req),
            MealValidateUpdateRequest(req),
            "structValidator.Struct", "mealValidator.ValidateUpdateRequest",
            "mealService.UpdateTemplate",
            UpdateTemplate(foodStore, store, userID, templateID, req, dbOk))

\* The response of DeleteTemplate to the service's result svc.
DeleteResponse(svc) ==
    HandlerResult(ServiceStatus(svc.err), "",
        [svc EXCEPT !.calls = <<"mealService.DeleteTemplate">> \o svc.calls])

\* MealHandler.DeleteTemplate
HandleDeleteTemplate(store, userID, templateID, dbOk) ==
    IF userID = NoUser THEN HandlerResult("unauthorized", "", NotCalled(store))
    ELSE IF templateID = EmptyID
    THEN HandlerResult("bad request", "", NotCalled(store))
    ELSE DeleteResponse(DeleteTemplate(store, userID, templateID, dbOk))

---------------------------------------------------------------------------
(* Bounds and the inputs the requests are drawn from                       *)

MaxFoods == 2            \* foods stored under Spec
MaxTemplates == 1        \* templates ever created
MaxItems == 2            \* line items of one template
MaxFoodsValidated == 1   \* foods stored under SpecFood
MaxServingSizes == 3     \* serving sizes of one food request under SpecFood

MacrosOf(p, c, f, fi, s) ==
    [Protein |-> R(p), Carbohydrates |-> R(c), Fat |-> R(f), Fiber |-> R(fi),
     Sugar |-> R(s)]

MicrosOf(a, c, ca, fe, na, k) ==
    [VitaminA |-> R(a), VitaminC |-> R(c), Calcium |-> R(ca), Iron |-> R(fe),
     Sodium |-> R(na), Potassium |-> R(k)]

SizeOf(unit, amount, gramEquivalent) ==
    [Unit |-> unit, Amount |-> R(amount), GramEquivalent |-> R(gramEquivalent)]

NoURL == [len |-> 0, blank |-> TRUE, parses |-> TRUE, scheme |-> "", host |-> ""]

FoodReq(name, macros, micros, sizes, calories) ==
    [Name |-> name, Description |-> <<>>, Macros |-> macros, Micros |-> micros,
     ServingSizes |-> sizes, Calories |-> calories, ImageURL |-> NoURL]

\* 10*4 + 20*4 + 5*9 + 3*2 = 171
AppleReq ==
    FoodReq([en |-> <<"a">>], MacrosOf(10, 20, 5, 3, 2), MicrosOf(1, 2, 3, 4, 5, 6),
            <<SizeOf("gram", 100, 100), SizeOf("cup", 1, 240)>>, R(171))

\* 3*4 + 1*9 = 21, declared 20; two pieces weigh 75 g; no 100 g gram serving
EggReq ==
    FoodReq([en |-> <<"e">>, vi |-> <<"t">>], MacrosOf(3, 0, 1, 0, 0),
            MicrosOf(0, 0, 10, 1, 0, 7),
            <<SizeOf("piece", 2, 75), SizeOf("gram", 50, 50)>>, R(20))

\* the apple with calories 11 below what its macros give
OffReq == [AppleReq EXCEPT !.Calories = R(160)]

SmallFoodRequests == {AppleReq, EggReq, OffReq}

\* The orders in which range can visit the keys of a map.
Perms(S) ==
    {f \in [1..Cardinality(S) -> S] : \A i, j \in 1..Cardinality(S) :
                                         f[i] = f[j] => i = j}

ItemOf(id, unit, amount) ==
    [FoodItemID |-> id, ServingUnit |-> unit, Amount |-> amount]

\* Items a stored food can resolve (given the foods are stored) ...
GoodItems ==
    {ItemOf(OID(1), "gram", R(100)), ItemOf(OID(1), "cup", <<3, 2>>),
     ItemOf(OID(2), "piece", R(1))}

\* ... and items that fail somewhere: a unit the apple and the egg lack, an
\* unknown food, a malformed id, a blank id, a blank unit, a zero amount.
BadItems ==
    {ItemOf(OID(1), "box", R(1)), ItemOf(OID(MaxFoods + 1), "gram", R(100)),
     ItemOf(BadID, "gram", R(100)), ItemOf(BlankID, "gram", R(100)),
     ItemOf(OID(1), " ", R(100)), ItemOf(OID(1), "gram", R(0))}

BaseItem == ItemOf(OID(1), "gram", R(100))

\* The item lists of the requests: none, one item, two resolvable items,
\* or the base item next to a failing one, in either order.
ItemLists ==
    {<<>>} \cup {<<x>> : x \in GoodItems \cup BadItems}
    \cup {<<x, y>> : x \in GoodItems, y \in GoodItems}
    \cup {<<BaseItem, y>> : y \in BadItems}
    \cup {<<y, BaseItem>> : y \in BadItems}

CreateReq(name, mealType, items) ==
    [Name |-> name, Description |-> <<>>, MealType |-> mealType,
     FoodItems |-> items, Tags |-> <<>>, IsPublic |-> FALSE]

CreateRequests ==
    {CreateReq(<<"m">>, "lunch", items) : items \in ItemLists}
    \cup {CreateReq(<<>>, "lunch", <<BaseItem>>),
          CreateReq(<<" ">>, "lunch", <<BaseItem>>),
          CreateReq(<<"m">>, "brunch", <<BaseItem>>)}

AddRequests == {[FoodItems |-> items] : items \in ItemLists}

UpdateReq(name, mealType, items, isPublic) ==
    [Name |-> name, Description |-> <<>>, MealType |-> mealType,
     FoodItems |-> items, TagsSet |-> FALSE, Tags |-> <<>>,
     IsPublic |-> isPublic]

UpdateRequests ==
    {UpdateReq(<<>>, "", items, "nil") : items \in ItemLists}
    \cup {UpdateReq(<<"n">>, "", <<>>, "nil"), UpdateReq(<<" ">>, "", <<>>, "nil"),
          UpdateReq(<<>>, "dinner", <<>>, "true"),
          UpdateReq(<<>>, "brunch", <<>>, "nil")}

NoReq == [none |-> TRUE]

Users == {OID(1), OID(2)}
Callers == Users \cup {NoUser, BadID}
TemplateIDs == {OID(n) : n \in 1..(MaxTemplates + 1)} \cup {BadID, EmptyID}

\* What can go wrong outside the request: the body does not bind, the
\* struct tags of the add-food request reject it, the database fails.
NoFault == [bindOk |-> TRUE, tagsOk |-> TRUE, dbOk |-> TRUE]

Faults ==
    {NoFault, [NoFault EXCEPT !.bindOk = FALSE],
     [NoFault EXCEPT !.tagsOk = FALSE], [NoFault EXCEPT !.dbOk = FALSE]}

\* The calls made: the first user sends every request for the first
\* template; every caller sends the chosen requests for every template id;
\* and the first user's chosen requests meet every fault.
MealCall(userID, templateID, f, req) ==
    [userID |-> userID, templateID |-> templateID, f |-> f, req |-> req]

MealCalls(reqs, chosen) ==
    {MealCall(OID(1), OID(1), NoFault, r) : r \in reqs}
    \cup {MealCall(u, t, NoFault, r) :
            u \in Callers, t \in TemplateIDs, r \in chosen}
    \cup {MealCall(OID(1), OID(1), f, r) : f \in Faults, r \in chosen}

---------------------------------------------------------------------------
(* The state machine                                                       *)

Idle ==
    [op |-> "none", status |-> "", validation |-> "", detail |-> "",
     err |-> "", calls |-> <<>>, resolved |-> 0, calc |-> NoCalc,
     warn |-> FALSE, req |-> NoReq]

CalcIdle == [fn |-> "none"]

\* The calls that may run side by side, none of them started.
Executions == {1, 2}
NotRunning == [pc |-> "idle"]
NoneRunning == [k \in Executions |-> NotRunning]

Init ==
    /\ foods = <<>>
    /\ templates = <<>>
    /\ resp = Idle
    /\ calc = CalcIdle
    /\ running = NoneRunning

\* The food store and the response after CreateFood returned r.
FoodStep(req, r) ==
    /\ foods' = r.store
    /\ resp' = [Idle EXCEPT !.op = "CreateFood",
                            !.status = IF r.err = "" THEN "ok" ELSE "error",
                            !.validation = r.stage, !.detail = r.detail,
                            !.err = r.err, !.calls = r.calls,
                            !.warn = r.warn, !.req = req]
    /\ UNCHANGED <<templates, calc, running>>

\* One FoodService.CreateFood call.
DoCreateFood(req) ==
    \E order \in Perms(DOMAIN req.Name), dbOk \in BOOLEAN :
        FoodStep(req, CreateFood(foods, OID(1), req, order, dbOk))

\* The template store and the response after a handler returned h.
MealStep(op, h) ==
    /\ templates' = h.store
    /\ resp' = [Idle EXCEPT !.op = op, !.status = h.status,
                            !.validation = h.validation, !.err = h.err,
                            !.calls = h.calls, !.resolved = h.resolved,
                            !.calc = h.calc]
    /\ UNCHANGED <<foods, calc, running>>

\* One request to MealHandler.CreateTemplate.
DoCreateTemplate ==
    /\ Len(templates) < MaxTemplates
    /\ \E c \in MealCalls(CreateRequests,
                          {CreateReq(<<"m">>, "lunch", <<BaseItem>>)}) :
        MealStep("CreateTemplate",
                 HandleCreateTemplate(foods, templates, c.userID, c.f.bindOk,
                                      c.req, c.f.dbOk))

\* One request to MealHandler.AddFoodToTemplate.
DoAddFoodToTemplate ==
    \E c \in MealCalls(AddRequests, {[FoodItems |-> <<BaseItem>>]}) :
        /\ TemplateFound(templates, c.templateID) =>
              Len(templates[c.templateID[2]].FoodItems) + Len(c.req.FoodItems)
                  <= MaxItems
        /\ MealStep("AddFoodToTemplate",
                    HandleAddFoodToTemplate(foods, templates, c.userID,
                        c.templateID, c.f.bindOk, c.f.tagsOk, c.req, c.f.dbOk))

\* One request to MealHandler.UpdateTemplate.
DoUpdateTemplate ==
    \E c \in MealCalls(UpdateRequests,
                       {UpdateReq(<<>>, "", <<BaseItem>>, "nil")}) :
        MealStep("UpdateTemplate",
                 HandleUpdateTemplate(foods, templates, c.userID, c.templateID,
                                      c.f.bindOk, c.req, c.f.dbOk))

\* One request to MealHandler.DeleteTemplate.
DoDeleteTemplate ==
    \E c \in MealCalls({NoReq}, {NoReq}) :
        MealStep("DeleteTemplate",
                 HandleDeleteTemplate(templates, c.userID, c.templateID,
                                      c.f.dbOk))

SmallCreateFood ==
    /\ Len(foods) < MaxFoods
    /\ \E req \in SmallFoodRequests : DoCreateFood(req)

Next ==
    \/ SmallCreateFood
    \/ DoCreateTemplate
    \/ DoAddFoodToTemplate
    \/ DoUpdateTemplate
    \/ DoDeleteTemplate

Spec == Init /\ [][Next]_vars

---------------------------------------------------------------------------
(* FoodService.CreateFood over a wide range of requests                    *)

Gram100 == SizeOf("gram", 100, 100)

\* calories declared d away from what the macros give
MacroReq(p, c, f, fi, su, d) ==
    FoodReq([en |-> <<"a">>], MacrosOf(p, c, f, fi, su), ZeroMicros, <<Gram100>>,
            R(4 * p + 4 * c + 9 * f + 2 * fi + d))

\* Every mix of present and absent macros, with the declared calories on,
\* at and just past the tolerance either way.
MacroRequests ==
    {MacroReq(p, c, f, fi, su, d) :
        p \in {0, 3}, c \in {0, 1}, f \in {0, 1}, fi \in {0, 5}, su \in {0, 7},
        d \in {-11, -10, 0, 10, 11}}
    \cup {[AppleReq EXCEPT !.Calories = R(k)] : k \in {160, 161, 181, 182}}

\* Values below, on and above the two ends of the macro range.
EdgeValues == {R(-1), Norm(-1, 2), R(100), Norm(201, 2), R(101)}

EdgeMacros ==
    LET base == MacrosOf(3, 1, 1, 0, 0) IN
    {[base EXCEPT !.Protein = x] : x \in EdgeValues}
    \cup {[base EXCEPT !.Carbohydrates = x] : x \in EdgeValues}
    \cup {[base EXCEPT !.Fat = x] : x \in EdgeValues}
    \cup {[base EXCEPT !.Fiber = x] : x \in EdgeValues}
    \cup {[base EXCEPT !.Sugar = x] : x \in {R(-1), R(500)}}

\* One macro at an edge of its range, the calories those of the macros.
EdgeMacroRequests ==
    {[AppleReq EXCEPT !.Macros = m,
                      !.Calories = expectedCalories([Macros |-> m])] :
        m \in EdgeMacros}

SizeEntries ==
    {Gram100, SizeOf("gram", 100, 150), SizeOf("gram", 1, 1),
     SizeOf("cup", 1, 240), SizeOf("cup", 0, 240)}

\* Serving sizes on and past each bound of an entry.
EdgeSizeEntries ==
    {SizeOf("oz", 1, 28), SizeOf("", 1, 1), SizeOf("cup", -1, 240),
     SizeOf("cup", 1, 0), SizeOf("cup", 1, -5), SizeOf("kg", 100, 100000),
     SizeOf("kg", 100, 100001),
     [SizeOf("kg", 100, 1) EXCEPT !.GramEquivalent = Norm(200001, 2)],
     SizeOf("gram", 100000, 100000), SizeOf("gram", 100001, 100001)}

\* The apple with one such entry alone, before and after a valid entry.
EdgeSizeRequests ==
    {[AppleReq EXCEPT !.ServingSizes = sizes] :
        sizes \in UNION {{<<e>>, <<e, Gram100>>, <<Gram100, e>>} :
                            e \in EdgeSizeEntries}}

RECURSIVE SeqsUpTo(_, _)
SeqsUpTo(S, n) ==
    IF n = 0 THEN {<<>>}
    ELSE SeqsUpTo(S, n - 1) \cup [1..n -> S]

\* The apple with every list of up to MaxServingSizes serving sizes.
SizeRequests ==
    {[AppleReq EXCEPT !.ServingSizes = sizes] :
        sizes \in SeqsUpTo(SizeEntries, MaxServingSizes)}

\* Names: none, none in English, blank in another language, of 200 and
\* of 201 characters, of 201 characters the last of them a space, and of
\* 66, 67 and 100 three-byte characters.
NameValues ==
    {<<>>, [vi |-> <<"t">>], [en |-> <<"a">>, vi |-> <<" ">>],
     [en |-> Rep("a", 200)], [en |-> Rep("a", 201)],
     [en |-> Rep("a", 200) \o <<" ">>],
     [en |-> <<"a">>, vi |-> Rep("t", 200)],
     [en |-> <<"a">>, vi |-> Rep("t", 201)],
     [en |-> Rep("U+1EC7", 66)], [en |-> Rep("U+1EC7", 67)],
     [en |-> <<"a">>, vi |-> Rep("U+1EC7", 100)]}

NameRequests == {[AppleReq EXCEPT !.Name = name] : name \in NameValues}

FtpURL ==
    [len |-> 10, blank |-> FALSE, parses |-> TRUE, scheme |-> "ftp", host |-> "h"]

\* One request for every set of stages to fail: a blank name, a description
\* of 1001 characters, a negative iron value, no serving size, calories 11
\* below the macros, a URL that is not http(s).  The serving size of the
\* others is a cup, so that the stage warns whenever it is reached.
FaultyRequests ==
    {[AppleReq EXCEPT
         !.Name = IF 1 \in F THEN [en |-> <<" ">>] ELSE @,
         !.Description = IF 2 \in F THEN [en |-> Rep("d", 1001)] ELSE @,
         !.Micros = IF 3 \in F THEN [@ EXCEPT !.Iron = R(-1)] ELSE @,
         !.ServingSizes = IF 4 \in F THEN <<>> ELSE <<SizeOf("cup", 1, 240)>>,
         !.Calories = IF 5 \in F THEN R(160) ELSE @,
         !.ImageURL = IF 6 \in F THEN FtpURL ELSE @] :
        F \in SUBSET (1..6)}

\* A blank name, two names, a URL with a scheme that is not http(s).
OtherRequests ==
    {[AppleReq EXCEPT !.Name = [en |-> <<" ">>]], EggReq,
     [AppleReq EXCEPT !.ImageURL = FtpURL]}

\* Macros whose sum is above 999 (the first is the case "total macros
\* exceed max" of the validator's test), and the largest sum of four values
\* in range.
TotalRequests ==
    {MacroReq(400, 300, 200, 100, 0, 0), MacroReq(0, 0, 0, 1000, 0, 0),
     MacroReq(1, 0, 0, 1000, 0, 0), MacroReq(100, 100, 100, 100, 0, 0)}

FoodRequests ==
    MacroRequests \cup EdgeMacroRequests \cup SizeRequests
    \cup EdgeSizeRequests \cup NameRequests \cup FaultyRequests
    \cup OtherRequests \cup TotalRequests

ValidatedCreateFood ==
    /\ Len(foods) < MaxFoodsValidated
    /\ \E req \in FoodRequests : DoCreateFood(req)

NextFood == ValidatedCreateFood

SpecFood == Init /\ [][NextFood]_vars

---------------------------------------------------------------------------
(* The calculator and processFoodItems applied over a stored catalogue     *)

MaxCalcItems == 3   \* entries of a list summed or processed

\* 2*4 + 28*4 = 120; a cup of 200 g listed before a pair of cups of 500 g
RiceReq ==
    FoodReq([en |-> <<"r">>], MacrosOf(2, 28, 0, 0, 0), MicrosOf(0, 0, 10, 1, 1, 35),
            <<SizeOf("cup", 1, 200), SizeOf("gram", 100, 100),
              SizeOf("cup", 2, 500)>>, R(120))

Catalogue ==
    <<FoodItemFromRequest(AppleReq, OID(1)), FoodItemFromRequest(EggReq, OID(1)),
      FoodItemFromRequest(RiceReq, OID(1))>>

CalcUnits == {"gram", "cup", "piece", "box"}
CalcAmounts == {R(0), R(1), R(50), R(100), <<3, 2>>}

\* The nutrient vectors summed
NutrientPairs ==
    {[macros |-> ScaleMacros(AppleReq.Macros, R(1)),
      micros |-> ScaleMicros(AppleReq.Micros, R(1))],
     [macros |-> ScaleMacros(EggReq.Macros, <<3, 8>>),
      micros |-> ScaleMicros(EggReq.Micros, <<3, 8>>)],
     [macros |-> ScaleMacros(AppleReq.Macros, <<1, 3>>),
      micros |-> ScaleMicros(AppleReq.Micros, <<1, 3>>)]}

CalcItems == GoodItems \cup {ItemOf(OID(1), "box", R(1))}

InitCalc ==
    /\ foods = Catalogue
    /\ templates = <<>>
    /\ resp = Idle
    /\ calc = CalcIdle
    /\ running = NoneRunning

\* CalculateNutrientsForServing applied to a stored food
CalcServing ==
    \E food \in 1..Len(foods), servingUnit \in CalcUnits, amount \in CalcAmounts :
        /\ calc' = [fn |-> "CalculateNutrientsForServing", food |-> food,
                    servingUnit |-> servingUnit, amount |-> amount,
                    out |-> CalculateNutrientsForServing(foods[food],
                                                         servingUnit, amount)]
        /\ UNCHANGED <<foods, templates, resp, running>>

\* SumMacros and SumMicros applied to a list
SumNutrients ==
    \E list \in SeqsUpTo(NutrientPairs, MaxCalcItems) :
        /\ calc' = [fn |-> "Sum",
                    macrosList |-> [i \in 1..Len(list) |-> list[i].macros],
                    microsList |-> [i \in 1..Len(list) |-> list[i].micros],
                    macros |-> SumMacros([i \in 1..Len(list) |-> list[i].macros]),
                    micros |-> SumMicros([i \in 1..Len(list) |-> list[i].micros])]
        /\ UNCHANGED <<foods, templates, resp, running>>

\* processFoodItems applied to a list of item requests
ProcessItems ==
    \E foodItemReqs \in SeqsUpTo(CalcItems, MaxCalcItems) :
        /\ calc' = [fn |-> "processFoodItems", foodItemReqs |-> foodItemReqs,
                    out |-> processFoodItems(foods, foodItemReqs)]
        /\ UNCHANGED <<foods, templates, resp, running>>

NextCalc ==
    \/ CalcServing
    \/ SumNutrients
    \/ ProcessItems

SpecCalc == InitCalc /\ [][NextCalc]_vars

---------------------------------------------------------------------------
(* validator.MealPlanValidator (unnamed/part_002): the date range          *)
(* A time.Time is the number of hours since an instant at which a UTC day  *)
(* began; a time.Duration is a number of hours.                            *)

minDateRangeDays == 1
maxDateRangeDays == 90

\* A variant that leaves the time as it is.
NotTruncated(t, d) == t

\* t.Truncate(d): t rounded down to a multiple of d since the zero time,
\* which began a UTC day.
Truncate(t, d) == t - (t % d)

\* A variant that counts both the first and the last day.
daysDiffInclusive(startDate, endDate) == (endDate - startDate) \div 24 + 1

\* int(endDate.Sub(startDate).Hours() / 24), for endDate after startDate
daysDiff(startDate, endDate) == (endDate - startDate) \div 24

\* validateDateRange; now is what time.Now() returns.
validateDateRange(now, startDate, endDate) ==
    IF startDate < Truncate(now, 24) THEN "start date cannot be in the past"
    ELSE IF ~(endDate > startDate) THEN "end date must be after start date"
    ELSE IF daysDiff(startDate, endDate) < minDateRangeDays
         THEN "date range must be at least min day(s)"
    ELSE IF daysDiff(startDate, endDate) > maxDateRangeDays
         THEN "date range exceeds maximum"
    ELSE ""

\* The longest range tried, in days.
MaxRangeDays == 92

\* The clock at the first, the eighth and the last hour of a UTC day.
Clock == {24000, 24007, 24023}

\* Start dates from a day before the clock's day to two days after it.
StartDates(now) ==
    {Truncate(now, 24) + h : h \in {-24, -1, 0, 1, 23, 24, 48}} \cup {now}

\* End dates from a day before the start to MaxRangeDays days after it,
\* on, just before and just after each bound.
EndDates(startDate) ==
    {startDate + h : h \in {-24, -1}}
    \cup {startDate + 24 * d + h :
            d \in {0, 1, 2, 89, 90, 91, MaxRangeDays}, h \in {0, 1, 23}}

\* validateDateRange applied to a range at some time of the day
ValidateDateRange ==
    \E now \in Clock : \E startDate \in StartDates(now) :
        \E endDate \in EndDates(startDate) :
            /\ calc' = [fn |-> "validateDateRange", now |-> now,
                        startDate |-> startDate, endDate |-> endDate,
                        err |-> validateDateRange(now, startDate, endDate)]
            /\ UNCHANGED <<foods, templates, resp, running>>

NextPlan == ValidateDateRange

SpecPlan == Init /\ [][NextPlan]_vars

---------------------------------------------------------------------------
(* validator.MealValidator (unnamed/part_017) applied to requests          *)

MaxValidatedItems == 3

\* The same food and unit twice with different amounts, the same food with
\* another unit, another food.
PairItems ==
    {ItemOf(OID(1), "gram", R(100)), ItemOf(OID(1), "gram", R(50)),
     ItemOf(OID(1), "cup", R(1)), ItemOf(OID(2), "gram", R(100))}

\* Items at the edges of what an item may be: a blank food, a blank unit,
\* an amount of 0, of -1, of 10000 and of 10001.
EdgeItems ==
    {ItemOf(BlankID, "gram", R(1)), ItemOf(OID(2), " ", R(1)),
     ItemOf(OID(2), "cup", R(0)), ItemOf(OID(2), "cup", R(-1)),
     ItemOf(OID(2), "cup", R(10000)), ItemOf(OID(2), "cup", R(10001))}

\* n items of n different foods
ManyItems(n) == [i \in 1..n |-> ItemOf(OID(i), "gram", R(1))]

ValidatedItemLists ==
    SeqsUpTo(PairItems, MaxValidatedItems)
    \cup UNION {{<<e>>, <<e, BaseItem>>, <<BaseItem, e>>} : e \in EdgeItems}
    \cup {ManyItems(50), ManyItems(51)}

\* What a validator call returned: the label of the failing stage and, for
\* the food items stage, the error it wraps.
Validated(fn, req, err) ==
    [fn |-> fn, req |-> req, err |-> err,
     detail |-> IF err = "food items validation failed"
                THEN validateFoodItems(req.FoodItems) ELSE ""]

ValidateMealCreate ==
    \E items \in ValidatedItemLists, mealType \in {"lunch", "brunch"} :
        /\ calc' = Validated("ValidateCreateRequest",
                             CreateReq(<<"m">>, mealType, items),
                             MealValidateCreateRequest(
                                 CreateReq(<<"m">>, mealType, items)))
        /\ UNCHANGED <<foods, templates, resp, running>>

ValidateMealUpdate ==
    \E items \in ValidatedItemLists, name \in {<<>>, <<" ">>} :
        /\ calc' = Validated("ValidateUpdateRequest",
                             UpdateReq(name, "", items, "nil"),
                             MealValidateUpdateRequest(
                                 UpdateReq(name, "", items, "nil")))
        /\ UNCHANGED <<foods, templates, resp, running>>

ValidateMealAddFood ==
    \E items \in ValidatedItemLists :
        /\ calc' = Validated("ValidateAddFoodRequest", [FoodItems |-> items],
                             ValidateAddFoodRequest([FoodItems |-> items]))
        /\ UNCHANGED <<foods, templates, resp, running>>

NextMeal == ValidateMealCreate \/ ValidateMealUpdate \/ ValidateMealAddFood

SpecMeal == Init /\ [][NextMeal]_vars

---------------------------------------------------------------------------
(* validator.MealValidator of internal/pkg/validator/meal_validator.go,    *)
(* which no handler is built with, next to the one of unnamed/part_017     *)

pkgMaxNameLength == 100
pkgMaxDescriptionLength == 500
maxTagsPerMeal == 10
maxFoodItemsPerMeal == 50
pkgMaxAmount == 10000
pkgMaxTagLength == 50

\* A variant with the name rule of the other validator.
pkgValidateNameAsHandler(name) == mealValidateName(name)

\* validateName of meal_validator.go
pkgValidateName(name) ==
    LET trimmed == TrimSpace(name) IN
    IF trimmed = <<>> THEN "name cannot be empty"
    ELSE IF ByteLen(trimmed) > pkgMaxNameLength
         THEN "name exceeds maximum length"
    ELSE ""

\* The loop of validateFoodItems of meal_validator.go from item i on.
RECURSIVE pkgValidateFoodItemsLoop(_, _)
pkgValidateFoodItemsLoop(items, i) ==
    IF i > Len(items) THEN ""
    ELSE LET item == items[i] IN
         IF item.FoodItemID = EmptyID THEN "foodItemId is required"
         ELSE IF item.ServingUnit \notin validUnits THEN "invalid serving unit"
         ELSE IF RLe(item.Amount, Zero) THEN "amount must be greater than 0"
         ELSE IF RGt(item.Amount, R(pkgMaxAmount))
              THEN "amount is unreasonably large"
         ELSE pkgValidateFoodItemsLoop(items, i + 1)

pkgValidateFoodItems(items) ==
    IF Len(items) = 0 THEN "at least one food item is required"
    ELSE IF Len(items) > maxFoodItemsPerMeal THEN "too many food items"
    ELSE pkgValidateFoodItemsLoop(items, 1)

RECURSIVE pkgValidateTagsLoop(_, _)
pkgValidateTagsLoop(tags, i) ==
    IF i > Len(tags) THEN ""
    ELSE LET trimmed == TrimSpace(tags[i]) IN
         IF trimmed = <<>> THEN "tag cannot be empty"
         ELSE IF ByteLen(trimmed) > pkgMaxTagLength
              THEN "tag exceeds maximum length"
         ELSE pkgValidateTagsLoop(tags, i + 1)

pkgValidateTags(tags) ==
    IF Len(tags) > maxTagsPerMeal THEN "too many tags"
    ELSE pkgValidateTagsLoop(tags, 1)

\* MealValidator.ValidateCreateTemplateRequest
ValidateCreateTemplateRequest(req) ==
    IF pkgValidateName(req.Name) # "" THEN "name validation failed"
    ELSE IF req.Description # <<>>
            /\ ByteLen(req.Description) > pkgMaxDescriptionLength
         THEN "description exceeds maximum length"
    ELSE IF validateMealType(req.MealType) # "" THEN "meal type validation failed"
    ELSE IF pkgValidateFoodItems(req.FoodItems) # ""
         THEN "food items validation failed"
    ELSE IF pkgValidateTags(req.Tags) # "" THEN "tags validation failed"
    ELSE ""

\* Lengths on both sides of the two validators' limits.
GateNames == {Rep("n", n) : n \in {1, 100, 101, 200, 201}}
GateDescriptions == {Rep("d", n) : n \in {0, 500, 501, 1000, 1001}}
GateTags == {Rep(<<"t">>, n) : n \in {0, 10, 11, 20, 21}}

\* One good item; the same pair twice; a unit outside the whitelist; the
\* amounts 10000 and 10001; an id of one space; 50 and 51 items.
GateItems ==
    {<<BaseItem>>,
     <<BaseItem, ItemOf(OID(1), "gram", R(50))>>,
     <<ItemOf(OID(1), "oz", R(1))>>,
     <<ItemOf(OID(1), "gram", R(10000))>>,
     <<ItemOf(OID(1), "gram", R(10001))>>,
     <<ItemOf(BlankID, "gram", R(1))>>,
     ManyItems(50), ManyItems(51)}

GateReq(name, description, tags, items) ==
    [Name |-> name, Description |-> description, MealType |-> "lunch",
     FoodItems |-> items, Tags |-> tags, IsPublic |-> FALSE]

\* Requests that leave the limits of at most two fields.
GateRequests ==
    {GateReq(n, <<>>, <<>>, i) : n \in GateNames, i \in GateItems}
    \cup {GateReq(<<"m">>, d, t, <<BaseItem>>) :
             d \in GateDescriptions, t \in GateTags}
    \cup {GateReq(n, d, <<>>, <<BaseItem>>) :
             n \in GateNames, d \in GateDescriptions}
    \cup {GateReq(<<"m">>, <<>>, t, i) : t \in GateTags, i \in GateItems}

\* Both validators applied to one request.
ValidateBoth ==
    \E req \in GateRequests :
        /\ calc' = [fn |-> "ValidateCreate", req |-> req,
                    handler |-> MealValidateCreateRequest(req),
                    pkg |-> ValidateCreateTemplateRequest(req)]
        /\ UNCHANGED <<foods, templates, resp, running>>

NextGate == ValidateBoth

SpecGate == Init /\ [][NextGate]_vars

---------------------------------------------------------------------------
(* The validators applied twice to one request: at two readings of the     *)
(* clock (time.Now in validateDateRange) and under two orders of the range *)
(* over the name map (validateName)                                        *)

\* The first and the last hour of a UTC day and of the day after it.
Moments == {24000, 24023, 24024, 24047}

\* Start dates from the day before the first moment to the day after the
\* last one, and end dates on both sides of the bounds.
TwiceStarts == {23976, 24000, 24012, 24024, 24048}
TwiceEnds(startDate) == {startDate + 24 * d : d \in {0, 1, 90, 91}}

ValidateFoodTwice ==
    \E req \in NameRequests : \E o1, o2 \in Perms(DOMAIN req.Name) :
        /\ calc' = [fn |-> "FoodValidator twice", req |-> req,
                    first |-> ValidateCreateRequest(req, o1).err,
                    second |-> ValidateCreateRequest(req, o2).err,
                    now1 |-> 0, now2 |-> 0]
        /\ UNCHANGED <<foods, templates, resp, running>>

ValidateMealTwice ==
    \E req \in CreateRequests : \E now1, now2 \in Moments :
        /\ calc' = [fn |-> "MealValidator twice", req |-> req,
                    first |-> MealValidateCreateRequest(req),
                    second |-> MealValidateCreateRequest(req),
                    now1 |-> now1, now2 |-> now2]
        /\ UNCHANGED <<foods, templates, resp, running>>

ValidatePlanTwice ==
    \E now1, now2 \in Moments : \E startDate \in TwiceStarts :
        \E endDate \in TwiceEnds(startDate) :
            /\ calc' = [fn |-> "MealPlanValidator twice",
                        req |-> [StartDate |-> startDate, EndDate |-> endDate],
                        first |-> validateDateRange(now1, startDate, endDate),
                        second |-> validateDateRange(now2, startDate, endDate),
                        now1 |-> now1, now2 |-> now2]
            /\ UNCHANGED <<foods, templates, resp, running>>

NextTwice == ValidateFoodTwice \/ ValidateMealTwice \/ ValidatePlanTwice

SpecTwice == Init /\ [][NextTwice]_vars

---------------------------------------------------------------------------
(* MealService.AddFoodToTemplate, two calls side by side                   *)

\* The store after the first user created a template of one item.
OneTemplate ==
    CreateTemplate(Catalogue, <<>>, OID(1),
                   CreateReq(<<"m">>, "lunch", <<BaseItem>>), TRUE).store

InitRace ==
    /\ foods = Catalogue
    /\ templates = OneTemplate
    /\ resp = Idle
    /\ calc = CalcIdle
    /\ running = NoneRunning

\* Requests the validator lets through: one or two items, the last of
\* them with a unit the food lacks.
RaceRequests ==
    {[FoodItems |-> items] :
        items \in {<<x>> : x \in GoodItems}
                  \cup {<<ItemOf(OID(2), "piece", R(1)),
                          ItemOf(OID(1), "cup", R(1))>>,
                        <<ItemOf(OID(1), "box", R(1))>>}}

\* Call k runs from its start to the return of processFoodItems.
StartAddFood(k) ==
    /\ running[k].pc = "idle"
    /\ \E userID \in Users, templateID \in {OID(1), OID(2)},
          req \in RaceRequests :
          running' = [running EXCEPT ![k] =
              AddFoodRead(templates, userID, templateID, req,
                          processFoodItems(foods, req.FoodItems))]
    /\ UNCHANGED <<foods, templates, resp, calc>>

WriteStep(k, dbOk, u) ==
    /\ templates' = u.store
    /\ running' = [running EXCEPT ![k] = AddFoodWritten(running[k], dbOk, u)]
    /\ UNCHANGED <<foods, resp, calc>>

\* Call k runs mealTemplateRepo.Update and returns.
FinishAddFood(k) ==
    /\ running[k].pc = "read"
    /\ \E dbOk \in BOOLEAN :
          WriteStep(k, dbOk,
                    WriteBack(templates, running[k].templateID,
                              running[k].template, running[k].p, dbOk))

NextRace == \E k \in Executions : StartAddFood(k) \/ FinishAddFood(k)

SpecRace == InitRace /\ [][NextRace]_vars

---------------------------------------------------------------------------
(* AddFoodToTemplate and UpdateTemplate calls side by side                 *)

\* Updates the validator lets through: of the name alone, of the items, of
\* both, and one whose item has a unit the food lacks.
MixUpdates ==
    {UpdateReq(<<"n">>, "", <<>>, "nil"),
     UpdateReq(<<>>, "", <<ItemOf(OID(2), "piece", R(1))>>, "nil"),
     UpdateReq(<<"n">>, "dinner",
               <<ItemOf(OID(1), "cup", R(1)), ItemOf(OID(1), "gram", R(50))>>,
               "true"),
     UpdateReq(<<>>, "", <<ItemOf(OID(1), "box", R(1))>>, "nil")}

\* Call k runs UpdateTemplate up to the return of processFoodItems.
StartUpdate(k) ==
    /\ running[k].pc = "idle"
    /\ \E userID \in Users, templateID \in {OID(1), OID(2)},
          req \in MixUpdates :
          running' = [running EXCEPT ![k] =
              UpdateRead(templates, userID, templateID, req,
                         processFoodItems(foods, req.FoodItems))]
    /\ UNCHANGED <<foods, templates, resp, calc>>

UpdateWriteStep(k, dbOk, u) ==
    /\ templates' = u.store
    /\ running' = [running EXCEPT ![k] = UpdateWritten(running[k], dbOk, u)]
    /\ UNCHANGED <<foods, resp, calc>>

\* Call k runs mealTemplateRepo.Update and returns.
FinishUpdate(k) ==
    /\ running[k].pc = "updating"
    /\ \E dbOk \in BOOLEAN :
          UpdateWriteStep(k, dbOk,
              TemplateRepoUpdate(templates, running[k].templateID,
                                 running[k].updated, dbOk))

NextMix ==
    \E k \in Executions :
        \/ StartAddFood(k) \/ FinishAddFood(k)
        \/ StartUpdate(k) \/ FinishUpdate(k)

SpecMix == InitRace /\ [][NextMix]_vars

---------------------------------------------------------------------------
(* Properties                                                              *)

\* The full recomputation of a template's totals from its line items.
RECURSIVE SumCalories(_, _)
SumCalories(items, i) ==
    IF i = 0 THEN Zero ELSE RAdd(SumCalories(items, i - 1), items[i].Calories)

Recomputed(t) ==
    [calories |-> SumCalories(t.FoodItems, Len(t.FoodItems)),
     macros |-> SumMacros([i \in 1..Len(t.FoodItems) |-> t.FoodItems[i].Macros]),
     micros |-> SumMicros([i \in 1..Len(t.FoodItems) |-> t.FoodItems[i].Micros])]

StoredTotals(t) ==
    [calories |-> t.TotalCalories, macros |-> t.TotalMacros,
     micros |-> t.TotalMicros]

MacroCalories(m) ==
    RAdd(RAdd(RMul(R(4), m.Protein), RMul(R(4), m.Carbohydrates)),
         RAdd(RMul(R(9), m.Fat), RMul(R(2), m.Fiber)))

\* |declared calories - calories of the macros|
CalorieGap(req) ==
    IF RLt(req.Calories, MacroCalories(req.Macros))
    THEN RSub(MacroCalories(req.Macros), req.Calories)
    ELSE RSub(req.Calories, MacroCalories(req.Macros))

\* The request passes every stage but, possibly, the calorie consistency.
OtherRulesHold(req) ==
    /\ \A order \in Perms(DOMAIN req.Name) : validateName(req.Name, order) = ""
    /\ validateDescription(req.Description) = ""
    /\ validateNutrition(req) = ""
    /\ validateServingSizes(req.ServingSizes).err = ""
    /\ req.ImageURL.len > 0 => validateImageURL(req.ImageURL) = ""

\* C2: a create request that satisfies every other rule is accepted exactly
\* when its declared calories are within 10 of 4*protein + 4*carbs + 9*fat
\* + 2*fiber; a gap of exactly 10 is accepted, a gap of 11 is rejected with
\* the calories-consistency error.
C2_ToleranceIsTen ==
    (resp.op = "CreateFood" /\ OtherRulesHold(resp.req)) =>
        /\ resp.validation = "" <=> RLe(CalorieGap(resp.req), R(10))
        /\ resp.validation # "" =>
              resp.validation = "calories consistency validation failed"

\* A request exactly 10 kcal above its macros was accepted and stored.
C2_Witness ==
    /\ resp.op = "CreateFood" /\ OtherRulesHold(resp.req)
    /\ CalorieGap(resp.req) = R(10)
    /\ resp.validation = "" /\ resp.status = "ok" /\ Len(foods) = 1

MealOps == {"CreateTemplate", "AddFoodToTemplate", "UpdateTemplate"}

\* C3: when the food has no serving size with the requested unit,
\* CalculateNutrientsForServing returns an error with zero calories, macros
\* and micros, and the CreateTemplate, AddFoodToTemplate or UpdateTemplate
\* call it was made for fails without writing to the template store, even
\* when earlier items of the request had resolved.
C3_UnknownUnitWritesNothing ==
    [][(resp'.op \in MealOps /\ resp'.calc.err = "serving unit not found") =>
          /\ resp'.calc.calories = Zero
          /\ resp'.calc.macros = ZeroMacros
          /\ resp'.calc.micros = ZeroMicros
          /\ resp'.err = "failed to process food items"
          /\ resp'.status = "internal error"
          /\ templates' = templates
          /\ \A i \in 1..Len(resp'.calls) :
                resp'.calls[i] \notin {"mealTemplateRepo.Create",
                                       "mealTemplateRepo.Update"}]_vars

\* An update of an existing template whose second item names a unit the
\* food lacks, the first item having resolved.
C3_Witness ==
    /\ resp.op = "UpdateTemplate"
    /\ resp.calc.err = "serving unit not found"
    /\ resp.resolved = 1
    /\ Len(templates) = 1 /\ ~templates[1].deleted

\* The rules of the food validator, read off a stored food.
InRange(x, lo, hi) == RLe(R(lo), x) /\ RLe(x, R(hi))

StoredFoodRules(food) ==
    /\ \E lang \in DOMAIN food.Name : TrimSpace(food.Name[lang]) # <<>>
    /\ \A lang \in DOMAIN food.Name :
          ByteLen(TrimSpace(food.Name[lang])) <= 200
    /\ ~(food.Macros.Protein = Zero /\ food.Macros.Carbohydrates = Zero
         /\ food.Macros.Fat = Zero)
    /\ InRange(food.Macros.Protein, 0, 100)
    /\ InRange(food.Macros.Carbohydrates, 0, 100)
    /\ InRange(food.Macros.Fat, 0, 100)
    /\ InRange(food.Macros.Fiber, 0, 100)
    /\ RLe(Zero, food.Macros.Sugar)
    /\ InRange(food.Calories, 0, 1000)
    /\ \A k \in DOMAIN food.Micros : RLe(Zero, food.Micros[k])
    /\ Len(food.ServingSizes) >= 1
    /\ \A i \in 1..Len(food.ServingSizes) :
          /\ food.ServingSizes[i].Unit \in {"gram", "kg", "piece", "cup", "ml", "box"}
          /\ RLt(Zero, food.ServingSizes[i].Amount)
          /\ InRange(food.ServingSizes[i].GramEquivalent, 0, 100000)
          /\ RLt(Zero, food.ServingSizes[i].GramEquivalent)
          /\ food.ServingSizes[i].Unit = "gram" =>
                food.ServingSizes[i].Amount = food.ServingSizes[i].GramEquivalent
    /\ RLe(CalorieGap(food), R(10))

\* C4: CreateFood calls the repository's Create only after validation
\* succeeded; a request that fails validation leaves the food store as it
\* was; so every stored food satisfies every validator rule, among them at
\* least one serving size and every amount > 0.
C4_OnlyValidFoodsStored ==
    [][resp'.op = "CreateFood" =>
          /\ resp'.calls[1] = "validator.ValidateCreateRequest"
          /\ resp'.validation # "" =>
                (foods' = foods /\ Len(resp'.calls) = 1)
          /\ Len(resp'.calls) > 1 =>
                (resp'.validation = ""
                 /\ resp'.calls = <<"validator.ValidateCreateRequest",
                                    "foodRepo.Create">>)
          /\ \A id \in 1..Len(foods') : StoredFoodRules(foods'[id])]_vars

\* A valid request was stored, by a call that ran the validator first.
C4_Witness ==
    /\ resp.op = "CreateFood" /\ resp.status = "ok"
    /\ resp.calls = <<"validator.ValidateCreateRequest", "foodRepo.Create">>
    /\ Len(foods) = 1 /\ Len(foods[1].ServingSizes) = 2

Validators ==
    {"structValidator.Struct", "mealValidator.ValidateCreateRequest",
     "mealValidator.ValidateAddFoodRequest",
     "mealValidator.ValidateUpdateRequest"}

\* C5: in the create, add-food and update handlers, when the struct
\* validator or the MealValidator rejects the request, no MealService method
\* is called: no food is looked up, nothing is computed and no template is
\* written.
C5_RejectedBeforeService ==
    [][(resp'.op \in MealOps /\ resp'.validation # "") =>
          /\ resp'.status = "validation error"
          /\ \A i \in 1..Len(resp'.calls) : resp'.calls[i] \in Validators
          /\ resp'.resolved = 0
          /\ resp'.calc = NoCalc
          /\ templates' = templates]_vars

\* The MealValidator rejected an add-food request of the owner of a stored
\* template, with a food stored that the service could have resolved.
C5_Witness ==
    /\ resp.op = "AddFoodToTemplate" /\ resp.validation # ""
    /\ resp.calls = <<"structValidator.Struct",
                      "mealValidator.ValidateAddFoodRequest">>
    /\ Len(foods) >= 1
    /\ Len(templates) = 1 /\ ~templates[1].deleted
    /\ templates[1].UserID = OID(1)

Twice(out) ==
    [calories |-> RMul(R(2), out.calories),
     macros |-> ScaleMacros(out.macros, R(2)),
     micros |-> ScaleMicros(out.micros, R(2)),
     err |-> out.err]

\* C6: the serving calculation is linear in the amount: for any food and
\* serving unit, the amount 2X gives exactly twice the calories, macros and
\* micros of the amount X.
C6_DoubleAmountDoubles ==
    calc.fn = "CalculateNutrientsForServing" =>
        CalculateNutrientsForServing(foods[calc.food], calc.servingUnit,
                                     RMul(R(2), calc.amount))
            = Twice(calc.out)

\* Half a gram-serving of a stored food was computed, with a result that is
\* not zero.
C6_Witness ==
    /\ calc.fn = "CalculateNutrientsForServing"
    /\ calc.servingUnit = "gram" /\ calc.amount = R(50)
    /\ calc.out.err = "" /\ calc.out.calories # Zero

HasBaseServing(food) ==
    \E i \in 1..Len(food.ServingSizes) :
        /\ food.ServingSizes[i] = Gram100
        /\ \A j \in 1..(i - 1) : food.ServingSizes[j].Unit # "gram"

\* C7: for a food whose gram serving has amount = gramEquivalent = 100, the
\* request of 100 gram has multiplier 1: the results equal the food's
\* baseline calories, macros and micros.
C7_HundredGramsIsBaseline ==
    (/\ calc.fn = "CalculateNutrientsForServing"
     /\ HasBaseServing(foods[calc.food])
     /\ calc.servingUnit = "gram" /\ calc.amount = R(100)) =>
        calc.out = [calories |-> foods[calc.food].Calories,
                    macros |-> foods[calc.food].Macros,
                    micros |-> foods[calc.food].Micros, err |-> ""]

\* 100 gram of the apple was computed.
C7_Witness ==
    /\ calc.fn = "CalculateNutrientsForServing"
    /\ HasBaseServing(foods[calc.food])
    /\ calc.servingUnit = "gram" /\ calc.amount = R(100)
    /\ calc.out.calories = R(171)

Permuted(list, f) == [i \in 1..Len(list) |-> list[f[i]]]

C9_ZeroMacrosRejected ==
    (resp.op = "CreateFood" /\ resp.req.Macros.Protein = Zero
     /\ resp.req.Macros.Carbohydrates = Zero /\ resp.req.Macros.Fat = Zero) =>
        /\ resp.status = "error" /\ resp.validation # ""
        /\ resp.calls = <<"validator.ValidateCreateRequest">>
        /\ resp.validation \notin {"name validation failed",
                                   "description validation failed"} =>
              /\ resp.validation = "nutrition validation failed"
              /\ resp.detail
                    = "at least one macro nutrient must be greater than 0"

\* A request with fiber and sugar only, its calories being those of the
\* fiber, was rejected.
C9_Witness ==
    /\ resp.op = "CreateFood" /\ resp.status = "error"
    /\ resp.req.Macros
         = [ZeroMacros EXCEPT !.Fiber = R(5), !.Sugar = R(7)]
    /\ resp.req.Calories = R(10)

GramMismatch(size) == size.Unit = "gram" /\ size.Amount # size.GramEquivalent

\* C10: every gram-unit serving size of an accepted food has amount =
\* gramEquivalent; a request with a gram serving size that breaks this is
\* rejected, whatever the position of that serving size in the list.
C10_GramAmountIsGramEquivalent ==
    /\ \A id \in 1..Len(foods) : \A i \in 1..Len(foods[id].ServingSizes) :
          ~GramMismatch(foods[id].ServingSizes[i])
    /\ (/\ resp.op = "CreateFood"
        /\ \E i \in 1..Len(resp.req.ServingSizes) :
              GramMismatch(resp.req.ServingSizes[i])) =>
          (resp.status = "error" /\ resp.validation # ""
           /\ resp.calls = <<"validator.ValidateCreateRequest">>)

\* A request whose third serving size is the first one to break the rule
\* was rejected for its serving sizes.
C10_Witness ==
    /\ resp.op = "CreateFood"
    /\ Len(resp.req.ServingSizes) = 3
    /\ GramMismatch(resp.req.ServingSizes[3])
    /\ validateServingSize(resp.req.ServingSizes[1]) = ""
    /\ validateServingSize(resp.req.ServingSizes[2]) = ""
    /\ resp.validation = "serving sizes validation failed"
    /\ resp.detail = "for gram unit, amount should equal gramEquivalent"

MacroFields == {"Protein", "Carbohydrates", "Fat", "Fiber"}

\* Some macro is outside [0, 100], or the sugar is negative.
MacroRangeBroken(m) ==
    \/ \E k \in MacroFields : RLt(m[k], Zero) \/ RGt(m[k], R(100))
    \/ RLt(m.Sugar, Zero)

MacroRangeErrors ==
    {"protein must be between 0 and max",
     "carbohydrates must be between 0 and max",
     "fat must be between 0 and max", "fiber must be between 0 and max",
     "sugar cannot be negative"}

\* C11: a create request is rejected when its protein, carbohydrates, fat
\* or fiber is below 0 or above 100, or its sugar is below 0; a value of
\* exactly 100 is not refused by the range rule, and sugar has no upper
\* bound: no request inside the ranges is refused with a range error.
C11_MacroRange ==
    /\ \A id \in 1..Len(foods) : ~MacroRangeBroken(foods[id].Macros)
    /\ resp.op = "CreateFood" =>
          /\ MacroRangeBroken(resp.req.Macros) =>
                /\ resp.status = "error" /\ resp.validation # ""
                /\ resp.calls = <<"validator.ValidateCreateRequest">>
                /\ resp.validation \notin {"name validation failed",
                                           "description validation failed"} =>
                      /\ resp.validation = "nutrition validation failed"
                      /\ resp.detail \in MacroRangeErrors \cup
                            {"at least one macro nutrient must be greater than 0"}
          /\ ~MacroRangeBroken(resp.req.Macros) =>
                resp.detail \notin MacroRangeErrors

\* A request with 100 g of fat was accepted and stored.
C11_Witness ==
    /\ resp.op = "CreateFood" /\ resp.status = "ok"
    /\ resp.req.Macros.Fat = R(100)
    /\ Len(foods) = 1 /\ foods[1].Macros.Fat = R(100)

\* An entry outside the unit set or with an amount or gram equivalent out
\* of bounds.
SizeBroken(size) ==
    \/ size.Unit \notin {"gram", "kg", "piece", "cup", "ml", "box"}
    \/ RLe(size.Amount, Zero)
    \/ RLe(size.GramEquivalent, Zero)
    \/ RGt(size.GramEquivalent, R(100000))

SizesBroken(sizes) ==
    Len(sizes) = 0 \/ \E i \in 1..Len(sizes) : SizeBroken(sizes[i])

SizeErrors ==
    {"at least one serving size is required", "invalid unit",
     "amount must be greater than 0", "gramEquivalent must be greater than 0",
     "gramEquivalent is unreasonably large"}

\* C12: a create request is rejected when its serving-size list is empty
\* or holds an entry whose unit is not one of gram, kg, piece, cup, ml, box,
\* whose amount is <= 0, or whose gramEquivalent is <= 0 or > 100000; a
\* gramEquivalent of exactly 100000 is not refused: no request free of these
\* faults is refused with one of their errors.
C12_ServingSizeBounds ==
    /\ \A id \in 1..Len(foods) : ~SizesBroken(foods[id].ServingSizes)
    /\ resp.op = "CreateFood" =>
          /\ SizesBroken(resp.req.ServingSizes) =>
                /\ resp.status = "error" /\ resp.validation # ""
                /\ resp.calls = <<"validator.ValidateCreateRequest">>
                /\ resp.validation \notin {"name validation failed",
                                           "description validation failed",
                                           "nutrition validation failed"} =>
                      /\ resp.validation = "serving sizes validation failed"
                      /\ resp.detail \in SizeErrors \cup
                            {"for gram unit, amount should equal gramEquivalent"}
          /\ ~SizesBroken(resp.req.ServingSizes) =>
                resp.detail \notin SizeErrors

\* A request whose only serving size weighs exactly 100000 g was accepted
\* and stored.
C12_Witness ==
    /\ resp.op = "CreateFood" /\ resp.status = "ok"
    /\ Len(foods) = 1 /\ Len(foods[1].ServingSizes) = 1
    /\ foods[1].ServingSizes[1].GramEquivalent = R(100000)

\* The name rule as the claim words it: at least one entry, an English
\* entry that is not blank once trimmed, every entry of at most 200
\* characters.
NameRuleInCharacters(name) ==
    /\ DOMAIN name # {}
    /\ "en" \in DOMAIN name /\ TrimSpace(name["en"]) # <<>>
    /\ \A lang \in DOMAIN name : Len(name[lang]) <= 200

\* C13: the food name rule accepts a name exactly when it has at least one
\* language entry, an English entry that is non-blank after trimming, and
\* every entry is at most 200 characters long.
C13_NameRule ==
    resp.op = "CreateFood" =>
        (resp.validation # "name validation failed"
            <=> NameRuleInCharacters(resp.req.Name))

\* A name whose Vietnamese entry has 100 characters was refused as too
\* long.
C13_Witness ==
    /\ resp.op = "CreateFood"
    /\ "vi" \in DOMAIN resp.req.Name /\ Len(resp.req.Name["vi"]) = 100
    /\ resp.validation = "name validation failed"
    /\ resp.detail = "name exceeds maximum length"

\* Every entry passes every per-entry check, and there is one at least.
AllSizesValid(sizes) ==
    /\ Len(sizes) >= 1
    /\ \A i \in 1..Len(sizes) : ~SizeBroken(sizes[i]) /\ ~GramMismatch(sizes[i])

HasGram100(sizes) ==
    \E i \in 1..Len(sizes) : sizes[i] = SizeOf("gram", 100, 100)

\* C14: a request whose serving sizes are all valid passes the serving-size
\* stage whether or not one of them is the 100 g gram serving, and is
\* accepted when its other fields are valid; the warning is logged exactly
\* when the stage is reached, passes, and finds no 100 g gram serving.
C14_MissingBaseOnlyWarns ==
    resp.op = "CreateFood" =>
        /\ resp.warn => (AllSizesValid(resp.req.ServingSizes)
                         /\ ~HasGram100(resp.req.ServingSizes))
        /\ (/\ AllSizesValid(resp.req.ServingSizes)
            /\ resp.validation \notin {"name validation failed",
                                       "description validation failed",
                                       "nutrition validation failed"}) =>
              /\ resp.validation # "serving sizes validation failed"
              /\ resp.warn <=> ~HasGram100(resp.req.ServingSizes)
              /\ (RLe(CalorieGap(resp.req), R(10)) /\ resp.req.ImageURL.len = 0)
                    => (resp.validation = ""
                        /\ resp.calls = <<"validator.ValidateCreateRequest",
                                          "foodRepo.Create">>)

\* A food with a piece and a 50 g gram serving, no 100 g one, was stored
\* and the warning was logged.
C14_Witness ==
    /\ resp.op = "CreateFood" /\ resp.status = "ok" /\ resp.warn
    /\ Len(foods) = 1 /\ Len(foods[1].ServingSizes) = 2
    /\ ~HasGram100(foods[1].ServingSizes)
    /\ \E i \in 1..2 : foods[1].ServingSizes[i].Unit = "gram"

StageLabels ==
    <<"name validation failed", "description validation failed",
      "nutrition validation failed", "serving sizes validation failed",
      "calories consistency validation failed", "image URL validation failed">>

\* What each stage says of the request when asked on its own.
StageVerdicts(req, order) ==
    <<validateName(req.Name, order), validateDescription(req.Description),
      validateNutrition(req), validateServingSizes(req.ServingSizes).err,
      validateCaloriesConsistency(req),
      IF req.ImageURL.len > 0 THEN validateImageURL(req.ImageURL) ELSE "">>

\* The first stage with an error, 0 when there is none.
FirstFailing(v) ==
    IF \A i \in 1..6 : v[i] = "" THEN 0
    ELSE CHOOSE i \in 1..6 : v[i] # "" /\ \A j \in 1..(i - 1) : v[j] = ""

\* C20: ValidateCreateRequest returns the error of the earliest failing
\* stage in the order name, description, nutrition, serving sizes, calories
\* consistency, image URL, under that stage's label, and nil when no stage
\* fails; the stages after a failing one are not run: the serving-size
\* warning is logged only when the first four stages pass.
C20_EarliestStageReported ==
    resp.op = "CreateFood" =>
        \E order \in Perms(DOMAIN resp.req.Name) :
            LET v == StageVerdicts(resp.req, order)
                k == FirstFailing(v)
            IN  /\ k = 0 => (/\ resp.validation = ""
                             /\ resp.err # "validation failed"
                             /\ Len(resp.calls) = 2)
                /\ k > 0 => (/\ resp.validation = StageLabels[k]
                             /\ resp.detail = v[k]
                             /\ resp.status = "error"
                             /\ resp.calls = <<"validator.ValidateCreateRequest">>)
                /\ resp.warn => (k = 0 \/ k > 4)

\* A request with a blank name, a negative iron value, no serving size, a
\* calorie gap and a bad URL was refused for its name.
C20_Witness ==
    /\ resp.op = "CreateFood"
    /\ resp.validation = "name validation failed"
    /\ validateNutrition(resp.req) # ""
    /\ resp.req.ServingSizes = <<>>
    /\ validateCaloriesConsistency(resp.req) # ""
    /\ resp.req.ImageURL.scheme = "ftp"

\* The UTC day a time falls in.
DayOf(t) == t \div 24

\* C15: with the bounds 1 and 90, a range that starts today and ends one
\* day after its start is accepted, and a range whose end is 91 days after
\* its start is rejected.
C15_OneDayAcceptedNinetyOneRejected ==
    calc.fn = "validateDateRange" =>
        /\ (/\ DayOf(calc.startDate) = DayOf(calc.now)
            /\ calc.endDate = calc.startDate + 24) => calc.err = ""
        /\ calc.endDate = calc.startDate + 91 * 24 => calc.err # ""

\* Late in the day, a range from the day's first hour to the next day's
\* was accepted.
C15_Witness ==
    /\ calc.fn = "validateDateRange"
    /\ calc.now % 24 = 23 /\ calc.startDate = calc.now - 23
    /\ calc.endDate = calc.startDate + 24
    /\ calc.err = ""

\* C16 as the code has it: a range is accepted exactly when its start is
\* not before the beginning of today, its end is after its start, and the
\* number of whole days from the start to the end, the start's day not
\* counted, is between 1 and 90.
C16_WholeDaysBetween ==
    calc.fn = "validateDateRange" =>
        (calc.err = "" <=>
            /\ DayOf(calc.startDate) >= DayOf(calc.now)
            /\ calc.endDate > calc.startDate
            /\ \E n \in 1..90 :
                  /\ calc.startDate + 24 * n <= calc.endDate
                  /\ calc.endDate < calc.startDate + 24 * (n + 1))

\* A range whose end is exactly 90 days after its start was accepted.
C16_Witness ==
    /\ calc.fn = "validateDateRange"
    /\ calc.endDate = calc.startDate + 90 * 24
    /\ calc.err = ""

\* The number of calendar days from the start through the end, both counted.
InclusiveSpan(startDate, endDate) == DayOf(endDate) - DayOf(startDate) + 1

\* C16: a range is accepted exactly when its start is not before today, its
\* end is strictly after its start, and its inclusive day-span is within
\* [1, 90].
C16_InclusiveSpan ==
    calc.fn = "validateDateRange" =>
        (calc.err = "" <=>
            /\ DayOf(calc.startDate) >= DayOf(calc.now)
            /\ calc.endDate > calc.startDate
            /\ InclusiveSpan(calc.startDate, calc.endDate) \in 1..90)

MealValidatorCalls ==
    {"ValidateCreateRequest", "ValidateUpdateRequest", "ValidateAddFoodRequest"}

\* Two items of the list name the same food and the same serving unit.
SharesPair(items) ==
    \E i, j \in 1..Len(items) :
        /\ i # j
        /\ items[i].FoodItemID = items[j].FoodItemID
        /\ items[i].ServingUnit = items[j].ServingUnit

\* C17: the meal validator of the handler rejects a create, update or
\* add-food request two of whose items share the food and the serving unit,
\* wherever they stand in the list; it never gives the duplicate error to a
\* request without such a pair, so the same food under two units passes.
C17_DuplicatePairsRejected ==
    calc.fn \in MealValidatorCalls =>
        /\ SharesPair(calc.req.FoodItems) => calc.err # ""
        /\ ~SharesPair(calc.req.FoodItems) =>
              calc.detail
                 # "duplicate food item with same foodItemId and servingUnit"
        /\ calc.detail = "duplicate food item with same foodItemId and servingUnit"
              => calc.err = "food items validation failed"

\* An update whose three items are one food by the gram and by the cup
\* and another food was accepted.
C17_Witness ==
    /\ calc.fn = "ValidateUpdateRequest" /\ calc.err = ""
    /\ Len(calc.req.FoodItems) = 3
    /\ \E i, j \in 1..3 :
          /\ calc.req.FoodItems[i].FoodItemID = calc.req.FoodItems[j].FoodItemID
          /\ calc.req.FoodItems[i].ServingUnit # calc.req.FoodItems[j].ServingUnit

\* C18: every request with food items that the meal validator of the
\* handler accepts has between 1 and 50 of them, each with a non-blank
\* food reference, a non-blank serving unit and 0 < amount <= 10000.
C18_AcceptedItemsBounded ==
    (/\ calc.fn \in MealValidatorCalls /\ calc.err = ""
     /\ (calc.fn = "ValidateUpdateRequest" => Len(calc.req.FoodItems) > 0)) =>
        /\ Len(calc.req.FoodItems) \in 1..50
        /\ \A i \in 1..Len(calc.req.FoodItems) :
              /\ ~IsBlankID(calc.req.FoodItems[i].FoodItemID)
              /\ ~IsBlankString(calc.req.FoodItems[i].ServingUnit)
              /\ RLt(Zero, calc.req.FoodItems[i].Amount)
              /\ RLe(calc.req.FoodItems[i].Amount, R(10000))

\* A create request with one item of 10001 cups was accepted.
C18_Witness ==
    /\ calc.fn = "ValidateCreateRequest" /\ calc.err = ""
    /\ Len(calc.req.FoodItems) = 1
    /\ calc.req.FoodItems[1].Amount = R(10001)

\* Calls j and k both ran to their write, of the same template, holding
\* the same copy of it, and the database failed neither.
BothReadThenWrote(j, k) ==
    /\ j # k
    /\ running[j].pc = "done" /\ running[j].wrote /\ running[j].dbOk
    /\ running[k].pc = "done" /\ running[k].wrote /\ running[k].dbOk
    /\ running[j].templateID = running[k].templateID
    /\ running[j].template = running[k].template

Stored(k) == templates[running[k].templateID[2]]

\* C19: when two AddFoodToTemplate calls on one template both read it
\* before either writes it back, both return success, and the template
\* stored in the end is the copy they read extended by the items and
\* totals of one of them only; nothing reports the other's loss.
C19_LostUpdate ==
    \A j, k \in Executions :
        BothReadThenWrote(j, k) =>
            /\ running[j].err = "" /\ running[k].err = ""
            /\ \/ Stored(j) = AddTotals(running[j].template, running[j].p)
               \/ Stored(j) = AddTotals(running[k].template, running[k].p)
            /\ Len(Stored(j).FoodItems)
                  < Len(running[j].template.FoodItems)
                    + Len(running[j].p.foodItems) + Len(running[k].p.foodItems)

\* Two calls with different items both succeeded; the template holds the
\* items of the second and not those of the first.
C19_Witness ==
    /\ BothReadThenWrote(1, 2)
    /\ running[1].err = "" /\ running[2].err = ""
    /\ running[1].p.foodItems # running[2].p.foodItems
    /\ Stored(1) = AddTotals(running[2].template, running[2].p)
    /\ Stored(1).TotalCalories
          = RAdd(running[2].template.TotalCalories, running[2].p.totalCalories)
    /\ \A i \in 1..Len(Stored(1).FoodItems) :
          Stored(1).FoodItems[i] # running[1].p.foodItems[1]

\* The position of the first entry of the list with the unit, 0 for none.
FirstWithUnit(sizes, unit) ==
    IF \A i \in 1..Len(sizes) : sizes[i].Unit # unit THEN 0
    ELSE CHOOSE i \in 1..Len(sizes) :
            sizes[i].Unit = unit /\ \A j \in 1..(i - 1) : sizes[j].Unit # unit

\* ((amount / entry.amount) * entry.gramEquivalent) / 100
FactorOf(entry, amount) ==
    RDiv(RMul(RDiv(amount, entry.Amount), entry.GramEquivalent), R(100))

\* C21: CalculateNutrientsForServing takes the first serving size, in list
\* order, with the requested unit, and returns the calories and every macro
\* and micro of the food times ((amount / entry.amount) *
\* entry.gramEquivalent) / 100; what follows that entry in the list, a
\* second entry with the same unit included, has no part in the result.
C21_FirstMatchScales ==
    (calc.fn = "CalculateNutrientsForServing"
     /\ FirstWithUnit(foods[calc.food].ServingSizes, calc.servingUnit) > 0) =>
        LET food == foods[calc.food]
            i == FirstWithUnit(food.ServingSizes, calc.servingUnit)
            x == FactorOf(food.ServingSizes[i], calc.amount)
        IN  /\ calc.out.err = ""
            /\ calc.out.calories = RMul(food.Calories, x)
            /\ \A k \in DOMAIN food.Macros :
                  calc.out.macros[k] = RMul(food.Macros[k], x)
            /\ \A k \in DOMAIN food.Micros :
                  calc.out.micros[k] = RMul(food.Micros[k], x)
            /\ calc.out = CalculateNutrientsForServing(
                  [food EXCEPT !.ServingSizes = SubSeq(@, 1, i)],
                  calc.servingUnit, calc.amount)

\* One cup of the food whose first cup weighs 200 g and whose later pair of
\* cups weighs 500 g came out as twice the values per 100 g.
C21_Witness ==
    /\ calc.fn = "CalculateNutrientsForServing" /\ calc.servingUnit = "cup"
    /\ calc.amount = R(1)
    /\ Cardinality({i \in 1..Len(foods[calc.food].ServingSizes) :
                       foods[calc.food].ServingSizes[i].Unit = "cup"}) = 2
    /\ calc.out.calories = RMul(foods[calc.food].Calories, R(2))

\* Call k returns from a successful write in this step.
Writes(k) ==
    running[k].pc = "read" /\ running'[k].pc = "done" /\ running'[k].err = ""

\* The line item is the one computed for the request item.
ItemFor(item, foodItemReq) ==
    /\ item.FoodItemID = foodItemReq.FoodItemID
    /\ item.ServingUnit = foodItemReq.ServingUnit
    /\ item.Amount = foodItemReq.Amount
    /\ item.Calories
         = CalculateNutrientsForServing(foods[foodItemReq.FoodItemID[2]],
               foodItemReq.ServingUnit, foodItemReq.Amount).calories

GateBase(req, field) ==
    /\ field = "Name" \/ req.Name = <<"m">> \/ req.Name = Rep("n", 1)
    /\ field = "Description" \/ req.Description = <<>>
    /\ field = "Tags" \/ req.Tags = <<>>
    /\ field = "FoodItems" \/ req.FoodItems = <<BaseItem>>

Compared == calc.fn = "ValidateCreate"

\* C23: the two MealValidator implementations decide differently on
\* create-template requests: a name of 101..200 bytes, a description of
\* 501..1000 bytes, 11..20 tags, more than 50 items, an amount above 10000
\* and a unit outside the whitelist pass the handler's validator and fail
\* the other one; two items with the same (food, unit) pair fail the
\* handler's validator and pass the other one.
C23_GatesDiffer ==
    Compared =>
      LET req == calc.req
          handlerOnly == calc.handler = "" /\ calc.pkg # ""
      IN
      /\ GateBase(req, "Name") /\ Len(req.Name) \in 101..200 => handlerOnly
      /\ GateBase(req, "Description") /\ Len(req.Description) \in 501..1000
            => handlerOnly
      /\ GateBase(req, "Tags") /\ Len(req.Tags) \in 11..20 => handlerOnly
      /\ GateBase(req, "FoodItems") /\ req.FoodItems = ManyItems(51)
            => handlerOnly
      /\ GateBase(req, "FoodItems")
            /\ req.FoodItems = <<ItemOf(OID(1), "gram", R(10001))>>
            => handlerOnly
      /\ GateBase(req, "FoodItems")
            /\ req.FoodItems = <<ItemOf(OID(1), "oz", R(1))>>
            => handlerOnly
      /\ GateBase(req, "FoodItems")
            /\ req.FoodItems = <<BaseItem, ItemOf(OID(1), "gram", R(50))>>
            => calc.handler # "" /\ calc.pkg = ""
      /\ GateBase(req, "") => calc.handler = "" /\ calc.pkg = ""

\* A request with a name of 101 letters passed one gate and not the other.
C23_Witness ==
    /\ Compared
    /\ GateBase(calc.req, "Name") /\ Len(calc.req.Name) = 101
    /\ calc.handler = "" /\ calc.pkg = "name validation failed"

ValidatedTwice ==
    calc.fn \in {"FoodValidator twice", "MealValidator twice",
                 "MealPlanValidator twice"}

SameOutcome == (calc.first = "") <=> (calc.second = "")

C26_NeverWithoutItems ==
    \A id \in 1..Len(templates) :
        ~templates[id].deleted => Len(templates[id].FoodItems) >= 1

\* An update without items was written and the template kept its item.
C26_Witness ==
    /\ resp.op = "UpdateTemplate" /\ resp.status = "ok"
    /\ resp.resolved = 0
    /\ \E i \in 1..Len(resp.calls) : resp.calls[i] = "mealTemplateRepo.Update"
    /\ \A i \in 1..Len(resp.calls) : resp.calls[i] # "foodRepo.GetByID"
    /\ Len(templates) = 1 /\ ~templates[1].deleted
    /\ Len(templates[1].FoodItems) = 1

SamePair(a, b) ==
    a.FoodItemID = b.FoodItemID /\ a.ServingUnit = b.ServingUnit

\* The add-food request of the template's owner for line item i once more.
AgainResult(id, i) ==
    LET item == templates[id].FoodItems[i] IN
    HandleAddFoodToTemplate(foods, templates, templates[id].UserID, OID(id),
        TRUE, TRUE,
        [FoodItems |-> <<ItemOf(item.FoodItemID, item.ServingUnit, item.Amount)>>],
        TRUE)

\* C27: AddFoodToTemplate does not compare new items with the stored ones:
\* for every stored template and every line item of it, a request to add
\* the same (foodItemId, servingUnit) pair again succeeds, the template
\* then holds the pair one more time and the totals count it once more.
C27_PresentPairAddedAgain ==
    \A id \in 1..Len(templates) :
        ~templates[id].deleted =>
            \A i \in 1..Len(templates[id].FoodItems) :
                LET t == templates[id]
                    h == AgainResult(id, i)
                IN  /\ h.status = "ok"
                    /\ Len(h.store[id].FoodItems) = Len(t.FoodItems) + 1
                    /\ SamePair(h.store[id].FoodItems[Len(t.FoodItems) + 1],
                                t.FoodItems[i])
                    /\ h.store[id].TotalCalories
                         = RAdd(t.TotalCalories, t.FoodItems[i].Calories)

\* A stored template holds the same pair twice after a successful
\* AddFoodToTemplate, and its total is that of both line items.
C27_Witness ==
    /\ resp.op = "AddFoodToTemplate" /\ resp.status = "ok"
    /\ Len(templates) = 1 /\ ~templates[1].deleted
    /\ Len(templates[1].FoodItems) = 2
    /\ SamePair(templates[1].FoodItems[1], templates[1].FoodItems[2])
    /\ templates[1].TotalCalories
         = RAdd(templates[1].FoodItems[1].Calories,
                templates[1].FoodItems[2].Calories)
    /\ templates[1].TotalCalories # Zero

\* The service refused at the ownership check: the error, the store as it
\* was, and GetByID on the template as its only repository call.
DeniedAtOwnership(svc) ==
    /\ svc.err = "template not found or access denied"
    /\ svc.store = templates
    /\ svc.calls = <<"mealTemplateRepo.GetByID">>
    /\ svc.resolved = 0

\* C28: for every stored template and every user other than its owner,
\* AddFoodToTemplate, UpdateTemplate and DeleteTemplate fail with 'template
\* not found or access denied', whether the template is public or not, leave
\* the store as it was and call nothing but mealTemplateRepo.GetByID.
C28_OnlyOwnerModifies ==
    \A id \in 1..Len(templates) :
        ~templates[id].deleted =>
            \A userID \in Users \ {templates[id].UserID}, dbOk \in BOOLEAN :
                /\ \A req \in AddRequests :
                      DeniedAtOwnership(AddFoodToTemplate(foods, templates,
                          userID, OID(id), req, dbOk))
                /\ \A req \in UpdateRequests :
                      DeniedAtOwnership(UpdateTemplate(foods, templates,
                          userID, OID(id), req, dbOk))
                /\ DeniedAtOwnership(DeleteTemplate(templates, userID,
                                                    OID(id), dbOk))

\* Another user's delete of a public template was refused and the template
\* is still stored.
C28_Witness ==
    /\ resp.op = "DeleteTemplate"
    /\ resp.err = "template not found or access denied"
    /\ resp.status = "not found"
    /\ Len(templates) = 1 /\ ~templates[1].deleted
    /\ templates[1].IsPublic
    /\ templates[1].UserID = OID(1)

\* Update requests with and without items and metadata, one of them with
\* a description, tags and the public flag set to false.
FrameUpdates ==
    UpdateRequests \cup MixUpdates
    \cup {[UpdateReq(<<>>, "", <<>>, "false") EXCEPT
              !.Description = <<"d">>, !.TagsSet = TRUE, !.Tags = <<<<"t">>>>],
          [UpdateReq(<<"n">>, "snack", <<BaseItem>>, "nil") EXCEPT
              !.TagsSet = TRUE]}

\* C29: a successful UpdateTemplate sets the name, the description and the
\* meal type when the request's is non-empty, the tags and the public flag
\* when the request's is non-nil, and nothing else of the metadata; without
\* food items it leaves FoodItems and the three totals as they were, with
\* food items it replaces FoodItems by the items computed for the request
\* and the totals by the sums over these, whatever the template held before.
\* A failed UpdateTemplate leaves the store as it was.
C29_UpdateFrame ==
    \A id \in 1..Len(templates) :
        ~templates[id].deleted =>
            \A req \in FrameUpdates :
                LET t == templates[id]
                    svc == UpdateTemplate(foods, templates, t.UserID, OID(id),
                                          req, TRUE)
                    new == svc.store[id]
                IN  IF svc.err # "" THEN svc.store = templates
                    ELSE
                    /\ new.Name = IF req.Name = <<>> THEN t.Name ELSE req.Name
                    /\ new.Description = IF req.Description = <<>>
                                         THEN t.Description ELSE req.Description
                    /\ new.MealType = IF req.MealType = "" THEN t.MealType
                                      ELSE req.MealType
                    /\ new.Tags = IF req.TagsSet THEN req.Tags ELSE t.Tags
                    /\ new.IsPublic = IF req.IsPublic = "nil" THEN t.IsPublic
                                      ELSE (req.IsPublic = "true")
                    /\ new.UserID = t.UserID /\ ~new.deleted
                    /\ \A other \in 1..Len(templates) :
                          other # id => svc.store[other] = templates[other]
                    /\ Len(req.FoodItems) = 0 =>
                          /\ new.FoodItems = t.FoodItems
                          /\ StoredTotals(new) = StoredTotals(t)
                    /\ Len(req.FoodItems) > 0 =>
                          /\ Len(new.FoodItems) = Len(req.FoodItems)
                          /\ \A i \in 1..Len(req.FoodItems) :
                                ItemFor(new.FoodItems[i], req.FoodItems[i])
                          /\ StoredTotals(new) = Recomputed(new)

\* An update with two items has replaced the items of a template, which
\* keeps the meal type an earlier update gave it.
C29_Witness ==
    /\ resp.op = "UpdateTemplate" /\ resp.status = "ok"
    /\ resp.resolved = 2
    /\ Len(templates) = 1 /\ ~templates[1].deleted
    /\ Len(templates[1].FoodItems) = 2
    /\ templates[1].MealType = "dinner" /\ templates[1].IsPublic

MacroTotal(macros) ==
    RAdd(RAdd(RAdd(macros.Protein, macros.Carbohydrates), macros.Fat),
         macros.Fiber)

\* C30: the check of the macro total against 999 never decides an outcome:
\* no CreateFood call is refused with 'total macros exceed maximum', and a
\* request whose total is above 999 is refused by an earlier check of
\* validateNutrition (a macro out of [0, 100], or protein, carbohydrates and
\* fat all zero); requests that pass those have a total of at most 400.
C30_TotalCheckNeverDecides ==
    resp.op = "CreateFood" =>
        LET err == validateNutrition(resp.req)
            total == MacroTotal(resp.req.Macros)
        IN  /\ err # "total macros exceed maximum"
            /\ resp.detail # "total macros exceed maximum"
            /\ RGt(total, R(maxTotalMacros)) =>
                  err \in {"at least one macro nutrient must be greater than 0",
                           "protein must be between 0 and max",
                           "carbohydrates must be between 0 and max",
                           "fat must be between 0 and max",
                           "fiber must be between 0 and max"}
            /\ err \notin {"at least one macro nutrient must be greater than 0",
                            "protein must be between 0 and max",
                            "carbohydrates must be between 0 and max",
                            "fat must be between 0 and max",
                            "fiber must be between 0 and max"}
                  => RLe(total, R(4 * maxMacroValue))

\* The request with protein 400, carbohydrates 300, fat 200 and fiber 100
\* was refused for its protein.
C30_Witness ==
    /\ resp.op = "CreateFood" /\ resp.status = "error"
    /\ resp.req.Macros.Protein = R(400) /\ resp.req.Macros.Fiber = R(100)
    /\ MacroTotal(resp.req.Macros) = R(1000)
    /\ resp.validation = "nutrition validation failed"
    /\ resp.detail = "protein must be between 0 and max"

===========================================================================
